---------------------------- MODULE Spec2Model ----------------------------
(***************************************************************************)
(* A model of rlox: the single-pass bytecode compiler (compiler.rs) and    *)
(* the stack virtual machine (vm.rs) of a Lox implementation.              *)
(*                                                                         *)
(* Source programs are abstract syntax trees (records); compile_node       *)
(* turns them into Executables exactly as compiler.rs does, and the VM     *)
(* actions execute one opcode per step as the match arms of VM::interpret  *)
(* do.  Host recursion (interpret -> call -> interpret) is the explicit    *)
(* sequence callstack.  Indices are 0-based as in the source; At(s, i)     *)
(* reads the i-th element of a sequence.                                   *)
(***************************************************************************)
EXTENDS Integers, Sequences, FiniteSets, TLC

VARIABLES
    scanner,    \* the Scanner: [characters, line, index]
    token,      \* the Token the last call of Scanner::next returned
    parsed,     \* what Parser::parse_program returned: [ok, ast, errors]
    merging,    \* the spans a call of Span::merge is given
    merged,     \* what the call of Span::merge returned
    parser,     \* the Parser of the parse under way: [scanner, current, next, checked]
    executable, \* the Executable built byte by byte: [code, spans, constants]
    prog,       \* the program under execution: its index in Programs (in Lines under
                \* SpecRepl, among the long sources under SpecLimit), the program
                \* itself under SpecScope
    runs,       \* number of sources handed to the driver so far
    functions,  \* the ObjFunction objects of the program: [name, arity, bin, upvalues]
    ip,         \* VM.ip
    base,       \* VM.base
    stack,      \* VM.stack
    globals,    \* VM.globals: a function from names to Values
    closures,   \* heap of ObjClosure: [function, upvalues]
    classes,    \* heap of ObjClass: [name, methods]
    instances,  \* heap of ObjInstance: [class, fields]
    callstack,  \* host activations of interpret/call/instantiate, innermost last
    status,     \* where the host control is: see Status
    error,      \* the RuntimeError being returned, or NoError
    output      \* lines written to output_stream

\* the state of the front end: scanner, parser, spans, and the bytes emitted
frontend == <<scanner, token, parsed, merging, merged, parser, executable>>

vars == <<frontend, prog, runs, functions, ip, base, stack, globals, closures, classes, instances,
          callstack, status, error, output>>

(***************************************************************************)
(* Bounds of the model.                                                    *)
(***************************************************************************)
\* most arguments of a generated call or instantiation
MaxArgs == 2
\* deepest stack of an arbitrary start state of SpecOp
MaxStack == 3
\* largest operand of an opcode of an arbitrary start state of SpecOp
MaxIndex == 3

(***************************************************************************)
(* Sequences, 0-based.                                                     *)
(***************************************************************************)
At(s, i) == s[i + 1]

Put(s, i, v) == [s EXCEPT ![i + 1] = v]

\* Vec::pop n times
DropLast(s, n) == SubSeq(s, 1, Len(s) - n)

\* Vec::insert(index, v): shifts every element at index.. one place up
VecInsert(s, i, v) == SubSeq(s, 1, i) \o <<v>> \o SubSeq(s, i + 1, Len(s))

\* position of the first x in s, or -1
IndexOf(s, x) ==
    IF \E i \in 1..Len(s) : s[i] = x
    THEN (CHOOSE i \in 1..Len(s) : s[i] = x /\ \A j \in 1..(i - 1) : s[j] # x) - 1
    ELSE -1

Range(s) == {s[i] : i \in 1..Len(s)}

EmptyMap == [x \in {} |-> 0]

\* HashMap::insert
MapInsert(m, k, v) == (k :> v) @@ m

(***************************************************************************)
(* value.rs: Value.  n is the number, the truth value (1/0) or the id of   *)
(* the heap object; m is the denominator of a Number (numbers are          *)
(* rationals n/m) or the method closure of a BoundMethod.                  *)
(***************************************************************************)
ValueNumber(n) == [t |-> "Number", n |-> n, m |-> 1, s |-> ""]
ValueBool(b) == [t |-> "Bool", n |-> IF b THEN 1 ELSE 0, m |-> 0, s |-> ""]
ValueNil == [t |-> "Nil", n |-> 0, m |-> 0, s |-> ""]
ValueString(s) == [t |-> "String", n |-> 0, m |-> 0, s |-> s]
ValueFunction(f) == [t |-> "Function", n |-> f, m |-> 0, s |-> ""]
ValueClosure(c) == [t |-> "Closure", n |-> c, m |-> 0, s |-> ""]
ValueClass(k) == [t |-> "Class", n |-> k, m |-> 0, s |-> ""]
ValueInstance(i) == [t |-> "Instance", n |-> i, m |-> 0, s |-> ""]
ValueBoundMethod(receiver, method) ==
    [t |-> "BoundMethod", n |-> receiver, m |-> method, s |-> ""]

is_number(v) == v.t = "Number"
is_string(v) == v.t = "String"
is_nil(v) == v.t = "Nil"

\* Value::is_truthy.  The numbers of the model are rationals with small
\* denominators, for which |n - 0| > f64::EPSILON exactly when n # 0.
is_truthy(v) ==
    CASE v.t = "Bool" -> v.n = 1
      [] v.t = "Nil" -> FALSE
      [] v.t = "Number" -> v.n # 0
      [] v.t = "String" -> v.s # ""
      [] OTHER -> TRUE

(***************************************************************************)
(* token.rs: Span; error.rs: RuntimeError / CompilerError.                 *)
(***************************************************************************)
Span(start, end) == <<start, end>>

NoError == [message |-> "", span |-> Span(0, 0)]

Error(message, span) == [message |-> message, span |-> span]

(***************************************************************************)
(* opcode.rs: OpCode, an operation and its (optional) operand.             *)
(***************************************************************************)
Op(name, arg) == [op |-> name, a |-> arg]

Op0(name) == [op |-> name, a |-> 0]

(***************************************************************************)
(* The Executable the compiler builds.  stmts and decls are not part of    *)
(* the program: they record, for the properties, where the code of a       *)
(* statement starts and ends and where a local variable is bound.          *)
(***************************************************************************)
Executable_new(name) ==
    [name |-> name, code |-> << >>, constants |-> << >>, spans |-> << >>,
     stmts |-> << >>, decls |-> << >>]

\* Executable::push_opcode: appends, the index of the new opcode is the old len
push_opcode(bin, op, span) ==
    [bin EXCEPT !.code = Append(@, op), !.spans = Append(@, span)]

\* Executable::add_constant: appends, the index of the new constant is the old size
add_constant(bin, value) == [bin EXCEPT !.constants = Append(@, value)]

get_constant(bin, index) == At(bin.constants, index)

\* Executable::len
len(bin) == Len(bin.code)

\* u16::max_value()
U16Max == 65535

\* Executable::assert_not_too_long
assert_not_too_long(bin, span) ==
    IF len(bin) > U16Max
    THEN Error("Binary may not be more than 65535 bytes long.", span)
    ELSE NoError


(***************************************************************************)
(* The abstract syntax tree the compiler consumes (AstNode with its span). *)
(* A Token is [kind, text, span].  Absent stands for Option::None, AstNone  *)
(* for a SpannedAstNode whose node is None.                                *)
(***************************************************************************)
Token(kind, text, span) == [kind |-> kind, text |-> text, span |-> span]

Absent == [k |-> "Absent", span |-> Span(0, 0)]

AstNone(span) == [k |-> "None", span |-> span]

AstUnary(span, operator, expression) ==
    [k |-> "Unary", span |-> span, operator |-> operator, expression |-> expression]

AstBinary(span, left, operator, right) ==
    [k |-> "Binary", span |-> span, left |-> left, operator |-> operator, right |-> right]

AstAnd(span, left, right) == [k |-> "And", span |-> span, left |-> left, right |-> right]

AstOr(span, left, right) == [k |-> "Or", span |-> span, left |-> left, right |-> right]

AstAssignment(span, lvalue, rvalue) ==
    [k |-> "Assignment", span |-> span, lvalue |-> lvalue, rvalue |-> rvalue]

AstVariable(span, name) == [k |-> "Variable", span |-> span, name |-> name]

AstConstant(span, value) == [k |-> "Constant", span |-> span, value |-> value]

AstInvokation(span, target, arguments) ==
    [k |-> "Invokation", span |-> span, target |-> target, arguments |-> arguments]

AstFieldAccess(span, target, name) ==
    [k |-> "FieldAccess", span |-> span, target |-> target, name |-> name]

AstSuperAccess(span, name) == [k |-> "SuperAccess", span |-> span, name |-> name]

AstClassDeclaration(span, name, methods, superclass) ==
    [k |-> "ClassDeclaration", span |-> span, name |-> name, methods |-> methods,
     superclass |-> superclass]

AstFunDeclaration(span, name, parameters, body) ==
    [k |-> "FunDeclaration", span |-> span, name |-> name, parameters |-> parameters,
     body |-> body]

AstVarDeclaration(span, name, initializer) ==
    [k |-> "VarDeclaration", span |-> span, name |-> name, initializer |-> initializer]

AstExpressionStmt(span, expression) ==
    [k |-> "ExpressionStmt", span |-> span, expression |-> expression]

AstPrint(span, expression) == [k |-> "Print", span |-> span, expression |-> expression]

AstReturn(span, value) == [k |-> "Return", span |-> span, value |-> value]

AstBlock(span, declarations) ==
    [k |-> "Block", span |-> span, declarations |-> declarations]

AstIf(span, condition, if_block, else_block) ==
    [k |-> "If", span |-> span, condition |-> condition, if_block |-> if_block,
     else_block |-> else_block]

AstWhile(span, condition, block) ==
    [k |-> "While", span |-> span, condition |-> condition, block |-> block]

AstFor(span, initializer, condition, update, block) ==
    [k |-> "For", span |-> span, initializer |-> initializer, condition |-> condition,
     update |-> update, block |-> block]

(***************************************************************************)
(* compiler.rs: LocalScope and Frame.                                      *)
(***************************************************************************)
LocalScope_new(offset) == [offset |-> offset, locals |-> << >>]

\* LocalScope::resolve: the index of the first local of that name, or -1
LocalScope_resolve(scope, name) == IndexOf(scope.locals, name)

Frame_new(is_global, function_type) ==
    [scopes |-> <<LocalScope_new(0)>>, upvalues |-> << >>,
     is_global |-> is_global, function_type |-> function_type]

add_local(frame, name) ==
    [frame EXCEPT !.scopes[Len(frame.scopes)].locals = Append(@, name)]

\* Frame::add_upvalue: the position of the (is_local, index) pair, added if new
add_upvalue(frame, index, is_local) ==
    LET i == IndexOf(frame.upvalues, <<is_local, index>>)
    IN  IF i >= 0
        THEN [frame |-> frame, index |-> i]
        ELSE [frame |-> [frame EXCEPT !.upvalues = Append(@, <<is_local, index>>)],
              index |-> Len(frame.upvalues)]

RECURSIVE resolve_local_from(_, _, _)
resolve_local_from(frame, name, distance) ==
    IF distance >= Len(frame.scopes)
    THEN [found |-> FALSE, index |-> 0, distance |-> 0]
    ELSE LET scope == frame.scopes[Len(frame.scopes) - distance]
             offset == LocalScope_resolve(scope, name)
         IN  IF offset >= 0
             THEN [found |-> TRUE, index |-> offset + scope.offset, distance |-> distance]
             ELSE resolve_local_from(frame, name, distance + 1)

\* Frame::resolve_local: (offset from frame pointer, distance to scope)
resolve_local(frame, name) == resolve_local_from(frame, name, 0)

Frame_is_global(frame) == frame.is_global /\ Len(frame.scopes) = 1

begin_scope(frame) ==
    LET parent == frame.scopes[Len(frame.scopes)]
        offset == IF Len(frame.scopes) > 0 THEN parent.offset + Len(parent.locals) ELSE 0
    IN  [frame EXCEPT !.scopes = Append(@, LocalScope_new(offset))]

(***************************************************************************)
(* compiler.rs: Compiler.  The state c of a compilation is the Compiler    *)
(* (frames), the Executable being written (bin), the ObjFunction and       *)
(* ObjClass objects created so far, and the CompilerError once one is      *)
(* returned: every step after an error leaves c as it is, as `?` does.     *)
(***************************************************************************)
Compiler_new ==
    [frames |-> <<Frame_new(TRUE, "None")>>, bin |-> Executable_new("script"),
     functions |-> << >>, classes |-> << >>, err |-> NoError]

Failed(c) == c.err # NoError

Fail(c, message, span) == IF Failed(c) THEN c ELSE [c EXCEPT !.err = Error(message, span)]

current_frame(c) == c.frames[Len(c.frames)]

Emit(c, op, span) == IF Failed(c) THEN c ELSE [c EXCEPT !.bin = push_opcode(@, op, span)]

\* bin.add_constant(value) followed by bin.push_opcode(name(index), span)
EmitConstant(c, name, value, span) ==
    IF Failed(c) THEN c
    ELSE [c EXCEPT !.bin = push_opcode(add_constant(@, value),
                                       Op(name, Len(c.bin.constants)), span)]

\* a compiler that leaves the placeholder of a jump as it is
Patch_Skipped(c, index, op) == c

\* bin[index] = op
Patch(c, index, op) == IF Failed(c) THEN c ELSE [c EXCEPT !.bin.code[index + 1] = op]

\* bin.assert_not_too_long(span)?
CheckLength(c, span) ==
    IF Failed(c) THEN c ELSE [c EXCEPT !.err = assert_not_too_long(c.bin, span)]

\* Frame::end_scope on the current frame: one Pop per local of the scope
end_scope(c, end_span) ==
    IF Failed(c) THEN c
    ELSE LET frame == current_frame(c)
             n == Len(frame.scopes[Len(frame.scopes)].locals)
         IN  [c EXCEPT !.bin.code = @ \o [i \in 1..n |-> Op0("Pop")],
                       !.bin.spans = @ \o [i \in 1..n |-> end_span],
                       !.frames[Len(c.frames)].scopes = DropLast(@, 1)]

enter_scope(c) ==
    IF Failed(c) THEN c ELSE [c EXCEPT !.frames[Len(c.frames)] = begin_scope(@)]

currently_within_method(c) ==
    \E i \in 1..Len(c.frames) : c.frames[i].function_type = "Method"

RECURSIVE resolve_upvalue(_, _, _)
\* Compiler::resolve_upvalue: [c, index], index -1 for None
resolve_upvalue(c, frame_depth, name) ==
    IF frame_depth >= Len(c.frames)
    THEN [c |-> c, index |-> -1]
    ELSE LET fi == Len(c.frames) - frame_depth
             local == resolve_local(c.frames[fi], name)
         IN  IF local.found
             THEN LET r == add_upvalue(c.frames[fi], local.index, TRUE)
                  IN  [c |-> [c EXCEPT !.frames[fi] = r.frame], index |-> r.index]
             ELSE LET up == resolve_upvalue(c, frame_depth + 1, name)
                  IN  IF up.index >= 0
                      THEN LET r == add_upvalue(up.c.frames[fi], up.index, FALSE)
                           IN  [c |-> [up.c EXCEPT !.frames[fi] = r.frame],
                                index |-> r.index]
                      ELSE [c |-> c, index |-> -1]

\* Compiler::get_variable / set_variable: local, then upvalue, then global
access_variable(c, name, span, local_op, upvalue_op, global_op) ==
    IF Failed(c) THEN c
    ELSE LET local == resolve_local(current_frame(c), name)
             up == resolve_upvalue(c, 0, name)
         IN  IF local.found THEN Emit(c, Op(local_op, local.index), span)
             ELSE IF up.index >= 0 THEN Emit(up.c, Op(upvalue_op, up.index), span)
             ELSE EmitConstant(c, global_op, ValueString(name), span)

get_variable(c, name, span) ==
    access_variable(c, name, span, "GetLocal", "GetUpvalue", "GetGlobal")

set_variable(c, name, span) ==
    access_variable(c, name, span, "SetLocal", "SetUpvalue", "SetGlobal")

\* Compiler::declare_variable
declare_variable(c, name, span) ==
    IF Failed(c) THEN c
    ELSE IF Frame_is_global(current_frame(c))
    THEN Emit(EmitConstant(EmitConstant(c, "DeclareGlobal", ValueString(name), span),
                           "SetGlobal", ValueString(name), span),
              Op0("Pop"), span)
    ELSE LET local == resolve_local(current_frame(c), name)
             frame == add_local(current_frame(c), name)
         IN  IF local.found /\ local.distance = 0
             THEN Fail(c, "Redeclaration of local variable " \o name, span)
             ELSE [c EXCEPT !.frames[Len(c.frames)] = frame,
                            !.bin.decls = Append(@, [ip |-> len(c.bin),
                                                     slot |-> resolve_local(frame, name).index])]

(***************************************************************************)
(* compiler.rs: Compiler::compile_node and Compiler::function_declaration. *)
(***************************************************************************)
BinaryOpcode(kind) ==
    CASE kind = "Plus" -> "Add"
      [] kind = "Minus" -> "Subtract"
      [] kind = "Star" -> "Multiply"
      [] kind = "Slash" -> "Divide"
      [] kind = "Less" -> "Less"
      [] kind = "LessEqual" -> "LessEqual"
      [] kind = "Greater" -> "Greater"
      [] kind = "GreaterEqual" -> "GreaterEqual"
      [] kind = "EqualEqual" -> "Equal"
      [] kind = "BangEqual" -> "NotEqual"
      [] OTHER -> ""

\* the statements whose code is to leave the stack as deep as it found it:
\* all but Return and the declaration of a local variable
IsBalancedStmt(c, node) ==
    \/ node.k \in {"ExpressionStmt", "Print", "Block", "If", "While", "For"}
    \/ /\ node.k \in {"VarDeclaration", "FunDeclaration", "ClassDeclaration"}
       /\ Frame_is_global(current_frame(c))

\* records that the code compiled for node is bin.code[start .. end-1]
MarkStmt(c, r, node) ==
    IF Failed(r) \/ ~IsBalancedStmt(c, node) THEN r
    ELSE [r EXCEPT !.bin.stmts = Append(@, [kind |-> node.k, start |-> len(c.bin),
                                            end |-> len(r.bin)])]

RECURSIVE compile_node(_, _), compile_nodes(_, _, _, _), function_declaration(_, _, _, _),
          compile_methods(_, _, _, _), add_parameters(_, _, _)

\* for node in nodes { self.compile_node(bin, node)? }, on the nodes first..last:
\* the earlier nodes in order, then the later ones in order.  The earlier part
\* is the shorter one, its evaluation being the one that nests deeper.
compile_nodes(c, nodes, first, last) ==
    IF first > last \/ Failed(c) THEN c
    ELSE IF first = last THEN compile_node(c, nodes[first])
    ELSE LET middle == first + ((last - first) \div 3)
         IN  compile_nodes(compile_nodes(c, nodes, first, middle), nodes, middle + 1, last)

\* the parameters of a function added to its frame as locals: [frame, err]
add_parameters(frame, parameters, i) ==
    IF i > Len(parameters) THEN [frame |-> frame, err |-> NoError]
    ELSE IF parameters[i].kind = "IdentifierLiteral"
    THEN add_parameters(add_local(frame, parameters[i].text), parameters, i + 1)
    ELSE [frame |-> frame,
          err |-> Error("Expected parameter name to be IdentifierLiteral",
                        parameters[i].span)]

function_declaration(c, function_node, function_span, function_type) ==
    IF Failed(c) THEN c
    ELSE IF function_node.k # "FunDeclaration"
    THEN Fail(c, "compiler.function_declaration called with non-FunctionDeclaration node",
              function_span)
    ELSE LET body == function_node.body
             \* frames.pop_back(): the ObjFunction takes the upvalues of the frame
             \* that is now current; then Closure(index of the function constant)
             Close(c4, outer) ==
                 EmitConstant(
                     [c4 EXCEPT !.frames = Put(DropLast(@, 1), Len(c4.frames) - 2,
                                               [outer EXCEPT !.upvalues = << >>]),
                                !.functions = Append(@, [name |-> function_node.name,
                                                         arity |-> Len(function_node.parameters) % 256,
                                                         bin |-> c4.bin,
                                                         upvalues |-> outer.upvalues]),
                                !.bin = c.bin],
                     "Closure", ValueFunction(Len(c4.functions) + 1), function_span)
             \* return nil; at the end, then the Pops of the frame's scope
             Body(c2) ==
                 IF Failed(c2) THEN c2
                 ELSE Close(end_scope(Emit(EmitConstant(c2, "Constant", ValueNil, function_span),
                                           Op0("Return"), body.span), body.span),
                            c2.frames[Len(c2.frames) - 1])
             \* the frame is pushed and the body compiled into a fresh Executable
             Open(params) ==
                 IF params.err # NoError THEN [c EXCEPT !.err = params.err]
                 ELSE Body(compile_node([c EXCEPT !.frames = Append(@, params.frame),
                                                  !.bin = Executable_new(function_node.name)],
                                        body))
         IN  Open(add_parameters(add_local(Frame_new(FALSE, function_type),
                                           IF function_type = "Method" THEN "this" ELSE ""),
                                 function_node.parameters, 1))

\* for each method: function_declaration(.., Method)? then Method
compile_methods(c, methods, node_span, i) ==
    IF i > Len(methods) \/ Failed(c) THEN c
    ELSE compile_methods(Emit(function_declaration(c, methods[i], node_span, "Method"),
                              Op0("Method"), methods[i].span),
                         methods, node_span, i + 1)

compile_node(c, node) ==
    IF Failed(c) THEN c
    ELSE IF node.k = "None"
    THEN Fail(c, "Attempted to compile SpannedAstNode with node: None", node.span)
    ELSE LET node_span == node.span
             result ==
      CASE node.k = "Unary" ->
             LET c1 == compile_node(c, node.expression)
             IN  CASE node.operator.kind = "Minus" -> Emit(c1, Op0("Negate"), node_span)
                   [] node.operator.kind = "Bang" -> Emit(c1, Op0("Not"), node_span)
                   [] OTHER -> Fail(c1, "Invalid unary operator", node.operator.span)
        [] node.k = "Binary" ->
             LET c2 == compile_node(compile_node(c, node.left), node.right)
                 opcode == BinaryOpcode(node.operator.kind)
             IN  IF opcode = "" THEN Fail(c2, "Invalid binary operator", node.operator.span)
                 ELSE Emit(c2, Op0(opcode), node_span)
        [] node.k = "Assignment" ->
             CASE node.lvalue.k = "Variable" ->
                    set_variable(compile_node(c, node.rvalue), node.lvalue.name, node_span)
               [] node.lvalue.k = "FieldAccess" ->
                    EmitConstant(compile_node(compile_node(c, node.lvalue.target),
                                              node.rvalue),
                                 "SetField", ValueString(node.lvalue.name), node_span)
               [] OTHER -> Fail(c, "Assignment to non-lvalue", node.lvalue.span)
        [] node.k = "Variable" ->
             IF node.name = "this" /\ ~currently_within_method(c)
             THEN Fail(c, "Cannot use 'this' outside of a class method.", node_span)
             ELSE get_variable(c, node.name, node_span)
        [] node.k = "Constant" -> EmitConstant(c, "Constant", node.value, node_span)
        [] node.k = "Invokation" ->
             \* the target, an empty slot for `this`, the arguments, Invoke
             LET c1 == EmitConstant(compile_node(c, node.target), "Constant", ValueNil,
                                    node_span)
             IN  Emit(compile_nodes(c1, node.arguments, 1, Len(node.arguments)),
                      Op("Invoke", Len(node.arguments)), node_span)
        [] node.k = "FieldAccess" ->
             EmitConstant(compile_node(c, node.target), "ReadField",
                          ValueString(node.name), node_span)
        [] node.k = "SuperAccess" ->
             LET this == resolve_local(current_frame(c), "this")
                 c1 == Emit(c, Op("GetLocal", this.index), node_span)
                 up == resolve_upvalue(c1, 0, "super")
             IN  IF ~this.found
                 THEN Fail(c, "'super' may not be used outside methods", node_span)
                 ELSE IF up.index < 0
                 THEN Fail(c1, "No superclass available here", node_span)
                 ELSE EmitConstant(Emit(up.c, Op("GetUpvalue", up.index), node_span),
                                   "GetSuper", ValueString(node.name), node_span)
        [] node.k = "ClassDeclaration" ->
             LET has_super == node.superclass # ""
                 \* the superclass stays on the stack as the local "super"
                 Super(c2) ==
                     IF has_super
                     THEN declare_variable(
                              get_variable(enter_scope(c2), node.superclass, node_span),
                              "super", node_span)
                     ELSE c2
                 Inherit(c4) == IF has_super THEN Emit(c4, Op0("Inherit"), node_span) ELSE c4
                 Close(c6) == IF has_super THEN end_scope(c6, node_span) ELSE c6
                 \* an empty class, a constant of the executable, bound to its name
                 Declare(c1) ==
                     declare_variable(
                         EmitConstant(c1, "Constant", ValueClass(Len(c1.classes)), node_span),
                         node.name, node_span)
             IN  Close(Emit(compile_methods(
                                Inherit(get_variable(
                                    Super(Declare([c EXCEPT !.classes =
                                                     Append(@, [name |-> node.name,
                                                                methods |-> EmptyMap])])),
                                    node.name, node_span)),
                                node.methods, node_span, 1),
                            Op0("Pop"), node_span))
        [] node.k = "FunDeclaration" ->
             declare_variable(function_declaration(c, node, node_span, "Function"),
                              node.name, node_span)
        [] node.k = "VarDeclaration" ->
             declare_variable(
                 IF node.initializer.k # "Absent"
                 THEN compile_node(c, node.initializer)
                 ELSE EmitConstant(c, "Constant", ValueNil, node_span),
                 node.name, node_span)
        [] node.k = "ExpressionStmt" ->
             Emit(compile_node(c, node.expression), Op0("Pop"), node.expression.span)
        [] node.k = "Print" ->
             Emit(compile_node(c, node.expression), Op0("Print"), node_span)
        [] node.k = "Return" ->
             Emit(IF node.value.k # "Absent"
                  THEN compile_node(c, node.value)
                  ELSE EmitConstant(c, "Constant", ValueNil, node_span),
                  Op0("Return"), node_span)
        [] node.k = "Block" ->
             end_scope(compile_nodes(enter_scope(c), node.declarations, 1,
                                   Len(node.declarations)), node_span)
        [] node.k = "If" ->
             LET Else(c5) ==
                     CheckLength(IF node.else_block.k # "Absent"
                                 THEN compile_node(c5, node.else_block)
                                 ELSE c5, node_span)
                 End(c7, second_jump) == Patch(c7, second_jump, Op("Jump", len(c7.bin)))
                 Skip(c4, first_jump, second_jump) ==
                     End(Else(Emit(Patch(c4, first_jump, Op("JumpIfFalse", len(c4.bin))),
                                   Op0("Pop"), node_span)),
                         second_jump)
                 Then(c3, first_jump) ==
                     Skip(Emit(c3, Op("Jump", 0), node_span), first_jump, len(c3.bin))
                 Test(c1) ==
                     Then(CheckLength(
                              compile_node(Emit(Emit(c1, Op("JumpIfFalse", 0), node_span),
                                                Op0("Pop"), node_span),
                                           node.if_block),
                              node_span),
                          len(c1.bin))
             IN  Test(compile_node(c, node.condition))
        [] node.k = "While" ->
             LET End(c4, jump_to_end_index) ==
                     Emit(Patch(c4, jump_to_end_index, Op("JumpIfFalse", len(c4.bin))),
                          Op0("Pop"), node_span)
                 Test(c1) ==
                     End(CheckLength(
                             Emit(compile_node(Emit(Emit(c1, Op("JumpIfFalse", 0), node_span),
                                                    Op0("Pop"), node_span),
                                               node.block),
                                  Op("Jump", len(c.bin)), node_span),
                             node_span),
                         len(c1.bin))
             IN  Test(compile_node(c, node.condition))
        [] node.k = "For" ->
             LET has_condition == node.condition.k # "Absent"
                 \* back to the condition; the exit jump is patched; Pop; the scope ends
                 End(c6, c7, jump_to_end_index) ==
                     end_scope(
                         Emit(IF has_condition
                              THEN Patch(c7, jump_to_end_index, Op("JumpIfFalse", len(c7.bin)))
                              ELSE c6,
                              Op0("Pop"), node_span),
                         node.block.span)
                 Loop(c6, jump_to_end_index) ==
                     End(c6, CheckLength(c6, node_span), jump_to_end_index)
                 Update(c4) ==
                     IF node.update.k # "Absent"
                     THEN Emit(compile_node(c4, node.update), Op0("Pop"), node.update.span)
                     ELSE c4
                 Body(c3, condition_index, jump_to_end_index) ==
                     Loop(Emit(Update(compile_node(c3, node.block)),
                               Op("Jump", condition_index), node_span),
                          jump_to_end_index)
                 Test(c2, condition_index) ==
                     Body(Emit(Emit(c2, Op("JumpIfFalse", 0), node_span),
                               Op0("Pop"), node.condition.span),
                          condition_index, len(c2.bin))
                 Start(c1) ==
                     IF has_condition
                     THEN Test(compile_node(c1, node.condition), len(c1.bin))
                     ELSE Body(c1, len(c1.bin), 0)
             IN  Start(IF node.initializer.k # "Absent"
                       THEN compile_node(enter_scope(c), node.initializer)
                       ELSE enter_scope(c))
        [] node.k = "Or" ->
             LET End(c3, jump_index) ==
                     Emit(Patch(c3, jump_index, Op("JumpIfTrue", len(c3.bin))),
                          Op0("Bool"), node_span)
                 Right(c1) ==
                     End(compile_node(Emit(Emit(c1, Op("JumpIfTrue", 0), node_span),
                                           Op0("Pop"), node_span),
                                      node.right),
                         len(c1.bin))
             IN  Right(compile_node(c, node.left))
        [] node.k = "And" ->
             LET End(c3, jump_index) ==
                     Emit(Patch(c3, jump_index, Op("JumpIfFalse", len(c3.bin))),
                          Op0("Bool"), node_span)
                 Right(c1) ==
                     End(compile_node(Emit(Emit(c1, Op("JumpIfFalse", 0), node_span),
                                           Op0("Pop"), node_span),
                                      node.right),
                         len(c1.bin))
             IN  Right(compile_node(c, node.left))
         IN  MarkStmt(c, result, node)

(***************************************************************************)
(* compiler.rs: compile.  The result is the table of ObjFunction objects   *)
(* (the script last), the ObjClass constants, and the CompilerError.       *)
(***************************************************************************)
compile(program) ==
    LET c == compile_nodes(Compiler_new, program, 1, Len(program))
        script == [name |-> "script", arity |-> 0, bin |-> c.bin, upvalues |-> << >>]
    IN  [functions |-> Append(c.functions, script), classes |-> c.classes,
         err |-> c.err]

\* compile called by a driver whose VM already holds objects: the ObjFunction and
\* ObjClass objects of the new script come after those of the heap
compile_in(functions0, classes0, program) ==
    LET c == compile_nodes([Compiler_new EXCEPT !.functions = functions0,
                                                !.classes = classes0], program, 1,
                           Len(program))
        script == [name |-> "script", arity |-> 0, bin |-> c.bin, upvalues |-> << >>]
    IN  [functions |-> Append(c.functions, script), classes |-> c.classes,
         err |-> c.err]

(***************************************************************************)
(* value.rs: arithmetic on Value::Number.  A number is the rational n/m    *)
(* in lowest terms with m > 0; m = 0 stands for the f64 values that are    *)
(* no rationals: 1/0 is inf, -1/0 is -inf and 0/0 is NaN.                  *)
(***************************************************************************)
Abs(x) == IF x < 0 THEN -x ELSE x

Sign(x) == IF x < 0 THEN -1 ELSE IF x > 0 THEN 1 ELSE 0

RECURSIVE Gcd(_, _)
Gcd(a, b) == IF b = 0 THEN a ELSE Gcd(b, a % b)

Rational(n, m) ==
    IF m = 0 THEN [t |-> "Number", n |-> Sign(n), m |-> 0, s |-> ""]
    ELSE LET g == Gcd(Abs(n), Abs(m))
         IN  [t |-> "Number", n |-> (Sign(m) * n) \div g, m |-> Abs(m) \div g, s |-> ""]

IsNaN(v) == v.m = 0 /\ v.n = 0

\* ops::Neg
neg(v) == [v EXCEPT !.n = -v.n]

\* ops::Add on two numbers
add(l, r) ==
    IF l.m = 0 /\ r.m = 0
    THEN Rational(IF l.n = r.n THEN l.n ELSE 0, 0)
    ELSE Rational(l.n * r.m + r.n * l.m, l.m * r.m)

\* ops::Sub
sub(l, r) == add(l, neg(r))

\* ops::Mul
mul(l, r) == Rational(l.n * r.n, l.m * r.m)

\* ops::Div
div(l, r) == Rational(l.n * r.m, l.m * r.n)

\* f64 ==
number_eq(l, r) == ~IsNaN(l) /\ ~IsNaN(r) /\ l.n = r.n /\ l.m = r.m

\* f64 <
number_lt(l, r) == ~IsNaN(l) /\ ~IsNaN(r) /\ l.n * r.m < r.n * l.m

(***************************************************************************)
(* Display and Debug of a Value (value.rs, object.rs), over the heap h.    *)
(***************************************************************************)
RECURSIVE Digits(_, _, _)
\* the decimal digits of r/m, 0 <= r < m, at most `places` of them
Digits(r, m, places) ==
    IF r = 0 \/ places = 0 THEN ""
    ELSE ToString((r * 10) \div m) \o Digits((r * 10) % m, m, places - 1)

\* Display of f64: the integer part, then the fraction digits if any
DisplayNumber(v) ==
    IF v.m = 0 THEN (IF v.n = 0 THEN "NaN" ELSE IF v.n > 0 THEN "inf" ELSE "-inf")
    ELSE LET whole == Abs(v.n) \div v.m
             frac == Digits(Abs(v.n) % v.m, v.m, 16)
         IN  (IF v.n < 0 THEN "-" ELSE "") \o ToString(whole)
             \o (IF frac = "" THEN "" ELSE "." \o frac)

FunctionName(h, f) == h.functions[f].name

ClosureName(h, c) == FunctionName(h, h.closures[c].function)

Display(h, v) ==
    CASE v.t = "Nil" -> "nil"
      [] v.t = "Bool" -> IF v.n = 1 THEN "true" ELSE "false"
      [] v.t = "Number" -> DisplayNumber(v)
      [] v.t = "Function" -> "<fn: " \o FunctionName(h, v.n) \o ">"
      [] v.t = "Closure" -> "<fn: " \o ClosureName(h, v.n) \o ">"
      [] v.t = "String" -> v.s
      [] v.t = "Class" -> h.classes[v.n].name
      [] v.t = "Instance" -> h.classes[h.instances[v.n].class].name \o " instance"
      [] v.t = "BoundMethod" -> "<fn: " \o ClosureName(h, v.m) \o ">"

Debug(h, v) ==
    CASE v.t = "Nil" -> "Nil"
      [] v.t = "Bool" -> IF v.n = 1 THEN "Bool(true)" ELSE "Bool(false)"
      [] v.t = "Number" -> "Number(" \o DisplayNumber(v) \o ")"
      [] v.t = "Function" -> "<fn: " \o FunctionName(h, v.n) \o ">"
      [] v.t = "Closure" -> "<fn: " \o ClosureName(h, v.n) \o ">"
      [] v.t = "String" -> "\"" \o v.s \o "\""
      [] v.t = "Class" -> "<Class " \o h.classes[v.n].name \o ">"
      [] v.t = "Instance" -> "<Instance " \o h.classes[h.instances[v.n].class].name \o ">"
      [] v.t = "BoundMethod" -> "(bound <fn: " \o ClosureName(h, v.m) \o ">)"

(***************************************************************************)
(* value.rs: impl PartialEq for Value, with the derived PartialEq of the   *)
(* objects behind the Rc pointers, which compares what they point to.      *)
(* The result is the set of outcomes the comparison can have: "true",      *)
(* "false", "overflow" (the recursion meets the pair it is comparing and   *)
(* never returns) and "borrowed" (a method table under a mutable borrow).  *)
(* locked is the set of classes whose method table is mutably borrowed.    *)
(***************************************************************************)
\* a && b, b evaluated only when a is true
AndThen(a, b) == (a \ {"true"}) \cup (IF "true" \in a THEN b ELSE {})

\* all of a family of comparisons made in an unspecified order (HashMap)
AllOf(family) ==
    {o \in {"false", "overflow", "borrowed"} : \E a \in family : o \in a}
    \cup (IF \A a \in family : "true" \in a THEN {"true"} ELSE {})

Truth(b) == IF b THEN {"true"} ELSE {"false"}

RECURSIVE value_eq(_, _, _, _, _), values_eq(_, _, _, _, _, _), map_eq(_, _, _, _, _),
          closure_eq(_, _, _, _, _), class_eq(_, _, _, _, _), instance_eq(_, _, _, _, _),
          function_eq(_, _, _, _, _)

\* Vec<T> ==, element by element from index i
values_eq(h, locked, seen, l, r, i) ==
    IF Len(l) # Len(r) THEN {"false"}
    ELSE IF i > Len(l) THEN {"true"}
    ELSE AndThen(value_eq(h, locked, seen, l[i], r[i]),
                 values_eq(h, locked, seen, l, r, i + 1))

\* HashMap<String, Value> ==
map_eq(h, locked, seen, l, r) ==
    IF DOMAIN l # DOMAIN r THEN {"false"}
    ELSE AllOf({value_eq(h, locked, seen, l[k], r[k]) : k \in DOMAIN l})

\* ObjFunction::eq: arity, name and bin
function_eq(h, locked, seen, l, r) ==
    LET lf == h.functions[l]
        rf == h.functions[r]
    IN  IF lf.arity # rf.arity \/ lf.name # rf.name \/ lf.bin.code # rf.bin.code
        THEN {"false"}
        ELSE AndThen(values_eq(h, locked, seen, lf.bin.constants, rf.bin.constants, 1),
                     Truth(lf.bin.spans = rf.bin.spans /\ lf.bin.name = rf.bin.name))

\* ObjClosure (derived): function, then upvalues
closure_eq(h, locked, seen, l, r) ==
    IF <<"Closure", l, r>> \in seen THEN {"overflow"}
    ELSE LET seen2 == seen \cup {<<"Closure", l, r>>}
         IN  AndThen(function_eq(h, locked, seen2, h.closures[l].function,
                                 h.closures[r].function),
                     values_eq(h, locked, seen2, h.closures[l].upvalues,
                               h.closures[r].upvalues, 1))

\* ObjClass (derived): name, then methods
class_eq(h, locked, seen, l, r) ==
    IF <<"Class", l, r>> \in seen THEN {"overflow"}
    ELSE IF h.classes[l].name # h.classes[r].name THEN {"false"}
    ELSE IF l \in locked \/ r \in locked THEN {"borrowed"}
    ELSE LET seen2 == seen \cup {<<"Class", l, r>>}
             lm == h.classes[l].methods
             rm == h.classes[r].methods
         IN  IF DOMAIN lm # DOMAIN rm THEN {"false"}
             ELSE AllOf({closure_eq(h, locked, seen2, lm[k], rm[k]) : k \in DOMAIN lm})

\* ObjInstance (derived): class, then fields
instance_eq(h, locked, seen, l, r) ==
    IF <<"Instance", l, r>> \in seen THEN {"overflow"}
    ELSE LET seen2 == seen \cup {<<"Instance", l, r>>}
         IN  AndThen(class_eq(h, locked, seen2, h.instances[l].class, h.instances[r].class),
                     map_eq(h, locked, seen2, h.instances[l].fields, h.instances[r].fields))

value_eq(h, locked, seen, l, r) ==
    CASE l.t = "Bool" -> Truth(is_truthy(r) = (l.n = 1))
      [] l.t = "Number" -> Truth(r.t = "Number" /\ number_eq(l, r))
      [] l.t = "Nil" -> Truth(is_nil(r))
      [] l.t = "String" -> Truth(r.t = "String" /\ l.s = r.s)
      [] l.t # r.t -> {"false"}
      [] l.t = "Function" -> function_eq(h, locked, seen, l.n, r.n)
      [] l.t = "Closure" -> closure_eq(h, locked, seen, l.n, r.n)
      [] l.t = "Class" -> class_eq(h, locked, seen, l.n, r.n)
      [] l.t = "Instance" -> instance_eq(h, locked, seen, l.n, r.n)
      [] l.t = "BoundMethod" ->
           AndThen(instance_eq(h, locked, seen, l.n, r.n),
                   closure_eq(h, locked, seen, l.m, r.m))

(***************************************************************************)
(* Source programs.  The nodes are built as parser.rs builds them: the     *)
(* span of a node is Span::merge of the spans of its parts.                *)
(***************************************************************************)
\* Span::merge: start and end both begin at 0; start is the least of 0 and the
\* starts of the spans, end the greatest of 0 and their ends
merge(spans) ==
    LET starts == {0} \cup {spans[i][1] : i \in 1..Len(spans)}
        ends == {0} \cup {spans[i][2] : i \in 1..Len(spans)}
    IN  Span(CHOOSE start \in starts : \A other \in starts : start <= other,
             CHOOSE end \in ends : \A other \in ends : end >= other)

SpansOf(nodes) == [i \in 1..Len(nodes) |-> nodes[i].span]

Num(n) == AstConstant(Span(n, n + 1), ValueNumber(n))

Str(s) == AstConstant(Span(1, 3), ValueString(s))

Nil == AstConstant(Span(2, 5), ValueNil)

False == AstConstant(Span(3, 8), ValueBool(FALSE))

True == AstConstant(Span(3, 7), ValueBool(TRUE))

Var(name) == AstVariable(Span(4, 6), name)

And(l, r) == AstAnd(merge(<<l.span, r.span>>), l, r)

Or(l, r) == AstOr(merge(<<l.span, r.span>>), l, r)

Param(name) == Token("IdentifierLiteral", name, Span(5, 7))

Unary(kind, e) == AstUnary(merge(<<Span(6, 7), e.span>>), Token(kind, "", Span(6, 7)), e)

Binary(l, kind, r) ==
    AstBinary(merge(<<l.span, r.span>>), l, Token(kind, "", Span(7, 9)), r)

Assign(lvalue, rvalue) == AstAssignment(merge(<<lvalue.span, rvalue.span>>), lvalue, rvalue)

Call(target, arguments) ==
    AstInvokation(merge(<<target.span, Span(8, 10 + Len(arguments))>>), target, arguments)

Field(target, name) == AstFieldAccess(merge(<<target.span, Span(9, 12)>>), target, name)

Block(declarations) == AstBlock(merge(SpansOf(declarations) \o <<Span(10, 20)>>), declarations)

Fun(name, parameters, declarations) ==
    AstFunDeclaration(merge(<<Span(11, 14), Block(declarations).span>>), name, parameters,
                      Block(declarations))

Class(name, methods, superclass) ==
    AstClassDeclaration(merge(SpansOf(methods) \o <<Span(12, 30)>>), name, methods, superclass)

VarDecl(name, initializer) ==
    AstVarDeclaration(merge(<<Span(13, 16), initializer.span>>), name, initializer)

ExprStmt(e) == AstExpressionStmt(merge(<<e.span, Span(14, 15)>>), e)

PrintStmt(e) == AstPrint(merge(<<Span(15, 20), e.span>>), e)

ReturnStmt(e) == AstReturn(merge(<<Span(16, 22), e.span>>), e)

\* the numbers 1 .. n as argument expressions, the names p1 .. pn as parameters
Arguments(n) == [i \in 1..n |-> Num(i)]

Parameters(n) == [i \in 1..n |-> Param("p" \o ToString(i))]

\* fun f(p1, .., pn) { return 7; }
\* { var r = f(1, .., n); var s = 5; print s; print r; }
CallProgram(n) ==
    << Fun("f", Parameters(n), <<ReturnStmt(Num(7))>>),
       Block(<< VarDecl("r", Call(Var("f"), Arguments(n))), VarDecl("s", Num(5)),
                PrintStmt(Var("s")), PrintStmt(Var("r")) >>) >>

\* class A { init(p1, .., pn) { this.x = 1; } }   or   class A {}
\* { var o = A(1, .., n); var s = 5; print s; print o; }
InstantiateProgram(n, has_init) ==
    << Class("A",
             IF has_init
             THEN <<Fun("init", Parameters(n),
                        <<ExprStmt(Assign(Field(Var("this"), "x"), Num(1)))>>)>>
             ELSE << >>, ""),
       Block(<< VarDecl("o", Call(Var("A"), Arguments(n))), VarDecl("s", Num(5)),
                PrintStmt(Var("s")), PrintStmt(Var("o")) >>) >>

\* fun outer() { var x = 1; fun get() { return x; } x = 2; return get(); }
\* print outer();
CaptureReadProgram ==
    << Fun("outer", << >>,
           << VarDecl("x", Num(1)),
              Fun("get", << >>, <<ReturnStmt(Var("x"))>>),
              ExprStmt(Assign(Var("x"), Num(2))),
              ReturnStmt(Call(Var("get"), << >>)) >>),
       PrintStmt(Call(Var("outer"), << >>)) >>

\* fun outer() { var x = 1; fun set() { x = 2; } fun get() { return x; }
\*               set(); return get(); }
\* print outer();
CaptureSharedProgram ==
    << Fun("outer", << >>,
           << VarDecl("x", Num(1)),
              Fun("set", << >>, <<ExprStmt(Assign(Var("x"), Num(2)))>>),
              Fun("get", << >>, <<ReturnStmt(Var("x"))>>),
              ExprStmt(Call(Var("set"), << >>)),
              ReturnStmt(Call(Var("get"), << >>)) >>),
       PrintStmt(Call(Var("outer"), << >>)) >>

\* fun outer() { var x = 1; fun set() { x = 2; } set(); return x; }
\* print outer();
CaptureWriteProgram ==
    << Fun("outer", << >>,
           << VarDecl("x", Num(1)),
              Fun("set", << >>, <<ExprStmt(Assign(Var("x"), Num(2)))>>),
              ExprStmt(Call(Var("set"), << >>)),
              ReturnStmt(Var("x")) >>),
       PrintStmt(Call(Var("outer"), << >>)) >>

\* tests/integration_tests.rs, closure_set_captured
\* fun adder(a) { fun f(b) { a = a + 1; return a + b; } return f; }
\* var add3 = adder(2); print add3(1);
ClosureSetCapturedProgram ==
    << Fun("adder", <<Param("a")>>,
           << Fun("f", <<Param("b")>>,
                  << ExprStmt(Assign(Var("a"), Binary(Var("a"), "Plus", Num(1)))),
                     ReturnStmt(Binary(Var("a"), "Plus", Var("b"))) >>),
              ReturnStmt(Var("f")) >>),
       VarDecl("add3", Call(Var("adder"), <<Num(2)>>)),
       PrintStmt(Call(Var("add3"), <<Num(1)>>)) >>

\* { fun f() {} f(); var b = 2; print b; }
LocalAfterCallProgram ==
    << Block(<< Fun("f", << >>, << >>), ExprStmt(Call(Var("f"), << >>)),
                VarDecl("b", Num(2)), PrintStmt(Var("b")) >>) >>

\* fun f(a, b, c) { a = 9; print a; print b; }  f(1, 2, 3);
AssignParameterProgram ==
    << Fun("f", <<Param("a"), Param("b"), Param("c")>>,
           << ExprStmt(Assign(Var("a"), Num(9))), PrintStmt(Var("a")),
              PrintStmt(Var("b")) >>),
       ExprStmt(Call(Var("f"), <<Num(1), Num(2), Num(3)>>)) >>

If(condition, if_block, else_block) ==
    AstIf(merge(<<condition.span, if_block.span, else_block.span>>), condition, if_block,
          else_block)

While(condition, block) == AstWhile(merge(<<condition.span, block.span>>), condition, block)

For(initializer, condition, update, block) ==
    AstFor(merge(<<initializer.span, condition.span, update.span, block.span>>),
           initializer, condition, update, block)

\* var g = 1;
\* { var i = 0; while (i < 2) { i = i + 1; } print i; }
\* for (var j = 0; j <= 1; j = j + 1) { print j * 3; }
\* if (g == 1 and !(g != 1) or false) { print "yes"; } else { print "no"; }
\* if (g > 1) print g; -g; print g / 2 >= 1 - g;
StatementsProgram ==
    << VarDecl("g", Num(1)),
       Block(<< VarDecl("i", Num(0)),
                While(Binary(Var("i"), "Less", Num(2)),
                      Block(<<ExprStmt(Assign(Var("i"), Binary(Var("i"), "Plus", Num(1))))>>)),
                PrintStmt(Var("i")) >>),
       For(VarDecl("j", Num(0)), Binary(Var("j"), "LessEqual", Num(1)),
           Assign(Var("j"), Binary(Var("j"), "Plus", Num(1))),
           Block(<<PrintStmt(Binary(Var("j"), "Star", Num(3)))>>)),
       If(AstOr(Span(0, 40),
                AstAnd(Span(0, 30), Binary(Var("g"), "EqualEqual", Num(1)),
                       Unary("Bang", Binary(Var("g"), "BangEqual", Num(1)))),
                False),
          Block(<<PrintStmt(Str("yes"))>>), Block(<<PrintStmt(Str("no"))>>)),
       If(Binary(Var("g"), "Greater", Num(1)), PrintStmt(Var("g")), Absent),
       ExprStmt(Unary("Minus", Var("g"))),
       PrintStmt(Binary(Binary(Var("g"), "Slash", Num(2)), "GreaterEqual",
                        Binary(Num(1), "Minus", Var("g")))) >>

\* fun g() { print "in g"; return -"x"; }  fun f() { g(); print "after g"; }
\* f(); print "end";
ErrorInCallProgram ==
    << Fun("g", << >>, <<PrintStmt(Str("in g")), ReturnStmt(Unary("Minus", Str("x")))>>),
       Fun("f", << >>, <<ExprStmt(Call(Var("g"), << >>)), PrintStmt(Str("after g"))>>),
       ExprStmt(Call(Var("f"), << >>)),
       PrintStmt(Str("end")) >>

\* class A { init() { print "init"; this.x = nil + 1; print "after"; } }
\* A(); print "end";
ErrorInInitProgram ==
    << Class("A", <<Fun("init", << >>,
                        << PrintStmt(Str("init")),
                           ExprStmt(Assign(Field(Var("this"), "x"),
                                           Binary(Nil, "Plus", Num(1)))),
                           PrintStmt(Str("after")) >>)>>, ""),
       ExprStmt(Call(Var("A"), << >>)),
       PrintStmt(Str("end")) >>

\* var x = 1; x = 2; print x; y = 3; print "unreached";
SetUndeclaredProgram ==
    << VarDecl("x", Num(1)), ExprStmt(Assign(Var("x"), Num(2))), PrintStmt(Var("x")),
       ExprStmt(Assign(Var("y"), Num(3))), PrintStmt(Str("unreached")) >>

\* var x; print x; print z; print "unreached";
GetUndeclaredProgram ==
    << VarDecl("x", Absent), PrintStmt(Var("x")), PrintStmt(Var("z")),
       PrintStmt(Str("unreached")) >>

\* fun f(a) { print a; }  f();
MissingArgumentProgram ==
    << Fun("f", <<Param("a")>>, <<PrintStmt(Var("a"))>>),
       ExprStmt(Call(Var("f"), << >>)) >>

\* var x = 1; x();
NotCallableProgram ==
    << VarDecl("x", Num(1)), ExprStmt(Call(Var("x"), << >>)) >>

\* class C { init(x) { this.x = x; } get() { return this.x; } }
\* var c = C(10); print c.get(); c.x = 20; print c.get(); print c.y;
ClassProgram ==
    << Class("C",
             << Fun("init", <<Param("x")>>,
                    <<ExprStmt(Assign(Field(Var("this"), "x"), Var("x")))>>),
                Fun("get", << >>, <<ReturnStmt(Field(Var("this"), "x"))>>) >>, ""),
       VarDecl("c", Call(Var("C"), <<Num(10)>>)),
       PrintStmt(Call(Field(Var("c"), "get"), << >>)),
       ExprStmt(Assign(Field(Var("c"), "x"), Num(20))),
       PrintStmt(Call(Field(Var("c"), "get"), << >>)),
       PrintStmt(Field(Var("c"), "y")) >>

\* class A { greet() { print "A"; } }
\* class B < A { greet() { super.greet(); print "B"; } }
\* B().greet();
InheritProgram ==
    << Class("A", <<Fun("greet", << >>, <<PrintStmt(Str("A"))>>)>>, ""),
       Class("B", <<Fun("greet", << >>,
                        << ExprStmt(Call(AstSuperAccess(Span(0, 11), "greet"), << >>)),
                           PrintStmt(Str("B")) >>)>>, "A"),
       ExprStmt(Call(Field(Call(Var("B"), << >>), "greet"), << >>)) >>

\* the source programs of the model
\* the left operands of `and` and `or`
Operands == <<Nil, False, True, Num(0), Num(1), Str(""), Str("x")>>

\* fun a() { print "a"; return A; } fun b() { print "b"; return "x"; }
\* print a() and b();     or     print a() or b();
ShortCircuitProgram(operator, operand) ==
    << Fun("a", << >>, <<PrintStmt(Str("a")), ReturnStmt(operand)>>),
       Fun("b", << >>, <<PrintStmt(Str("b")), ReturnStmt(Str("x"))>>),
       PrintStmt(IF operator = "and"
                 THEN And(Call(Var("a"), << >>), Call(Var("b"), << >>))
                 ELSE Or(Call(Var("a"), << >>), Call(Var("b"), << >>))) >>

ShortCircuitPrograms ==
    [i \in 1..Len(Operands) |-> ShortCircuitProgram("and", Operands[i])]
    \o [i \in 1..Len(Operands) |-> ShortCircuitProgram("or", Operands[i])]

\* class K { b() { return 1; } } var o = K(); var p = K();
\* o.a = 1; p.a = 2; o.a = 3; o.b = 4; print o.a; print p.a; print o.b; print o.c;
FieldProgram ==
    << Class("K", <<Fun("b", << >>, <<ReturnStmt(Num(1))>>)>>, ""),
       VarDecl("o", Call(Var("K"), << >>)),
       VarDecl("p", Call(Var("K"), << >>)),
       ExprStmt(Assign(Field(Var("o"), "a"), Num(1))),
       ExprStmt(Assign(Field(Var("p"), "a"), Num(2))),
       ExprStmt(Assign(Field(Var("o"), "a"), Num(3))),
       ExprStmt(Assign(Field(Var("o"), "b"), Num(4))),
       PrintStmt(Field(Var("o"), "a")),
       PrintStmt(Field(Var("p"), "a")),
       PrintStmt(Field(Var("o"), "b")),
       PrintStmt(Field(Var("o"), "c")) >>

\* class K { init() { this.a = 1; print this.a; } } K(); print "end";
ReadInInitProgram ==
    << Class("K", <<Fun("init", << >>,
                        << ExprStmt(Assign(Field(Var("this"), "a"), Num(1))),
                           PrintStmt(Field(Var("this"), "a")) >>)>>, ""),
       ExprStmt(Call(Var("K"), << >>)),
       PrintStmt(Str("end")) >>

\* class A { m1() { print "A1"; } m2() { print "A2"; } }
\* class B < A { m2() { print "B2"; } m3() { print "B3"; } }
\* var b = B(); b.m1(); b.m2(); b.m3();
InheritOverrideProgram ==
    << Class("A", << Fun("m1", << >>, <<PrintStmt(Str("A1"))>>),
                     Fun("m2", << >>, <<PrintStmt(Str("A2"))>>) >>, ""),
       Class("B", << Fun("m2", << >>, <<PrintStmt(Str("B2"))>>),
                     Fun("m3", << >>, <<PrintStmt(Str("B3"))>>) >>, "A"),
       VarDecl("b", Call(Var("B"), << >>)),
       ExprStmt(Call(Field(Var("b"), "m1"), << >>)),
       ExprStmt(Call(Field(Var("b"), "m2"), << >>)),
       ExprStmt(Call(Field(Var("b"), "m3"), << >>)) >>

\* class K {} var a = K(); var b = K();
\* a.x = a; b.x = b; a.y = 1; b.y = 2; print a == b;
EqualOrderProgram ==
    << Class("K", << >>, ""),
       VarDecl("a", Call(Var("K"), << >>)),
       VarDecl("b", Call(Var("K"), << >>)),
       ExprStmt(Assign(Field(Var("a"), "x"), Var("a"))),
       ExprStmt(Assign(Field(Var("b"), "x"), Var("b"))),
       ExprStmt(Assign(Field(Var("a"), "y"), Num(1))),
       ExprStmt(Assign(Field(Var("b"), "y"), Num(2))),
       PrintStmt(Binary(Var("a"), "EqualEqual", Var("b"))) >>

\* var n = 0; for (n = n + 10; n < 12; n = n + 1) { print n; } print n;
ForGlobalProgram ==
    << VarDecl("n", Num(0)),
       For(ExprStmt(Assign(Var("n"), Binary(Var("n"), "Plus", Num(10)))),
           Binary(Var("n"), "Less", Num(12)),
           Assign(Var("n"), Binary(Var("n"), "Plus", Num(1))),
           Block(<<PrintStmt(Var("n"))>>)),
       PrintStmt(Var("n")) >>

\* for (var j = 0; j < 2; j = j + 1) { print j; }  { var b = 8; print b; }
ForLocalProgram ==
    << For(VarDecl("j", Num(0)), Binary(Var("j"), "Less", Num(2)),
           Assign(Var("j"), Binary(Var("j"), "Plus", Num(1))),
           Block(<<PrintStmt(Var("j"))>>)),
       Block(<<VarDecl("b", Num(8)), PrintStmt(Var("b"))>>) >>

\* var i = 0; for (; i < 2;) { print i; i = i + 1; }
ForConditionOnlyProgram ==
    << VarDecl("i", Num(0)),
       For(Absent, Binary(Var("i"), "Less", Num(2)), Absent,
           Block(<< PrintStmt(Var("i")),
                    ExprStmt(Assign(Var("i"), Binary(Var("i"), "Plus", Num(1)))) >>)) >>

\* var t = true; for (;; t = !t) { }  print "after";
ForNoConditionProgram ==
    << VarDecl("t", True),
       For(Absent, Absent, Assign(Var("t"), Unary("Bang", Var("t"))), Block(<< >>)),
       PrintStmt(Str("after")) >>

\* { var a = 7; for (var j = 0; j < 2; j = j + 1) { } print a; }
ForSecondLocalProgram ==
    << Block(<< VarDecl("a", Num(7)),
                For(VarDecl("j", Num(0)), Binary(Var("j"), "Less", Num(2)),
                    Assign(Var("j"), Binary(Var("j"), "Plus", Num(1))),
                    Block(<< >>)),
                PrintStmt(Var("a")) >>) >>

\* the programs with a for statement, what each prints when for runs as it is
\* documented, and whether it ends
ForPrograms ==
    << ForGlobalProgram, ForLocalProgram, ForConditionOnlyProgram, ForNoConditionProgram,
       ForSecondLocalProgram >>

ForOutputs == << <<"10", "11", "12">>, <<"0", "1", "8">>, <<"0", "1">>, << >>, <<"7">> >>

ForEnds == <<TRUE, TRUE, TRUE, FALSE, TRUE>>

\* fun g() { var x = 1; fun e() { fun f() { return x; } return f(); } return e(); }
\* print g();
UpvalueThroughProgram ==
    << Fun("g", << >>,
           << VarDecl("x", Num(1)),
              Fun("e", << >>,
                  << Fun("f", << >>, <<ReturnStmt(Var("x"))>>),
                     ReturnStmt(Call(Var("f"), << >>)) >>),
              ReturnStmt(Call(Var("e"), << >>)) >>),
       PrintStmt(Call(Var("g"), << >>)) >>

\* fun g() { var x = 1; var y = 2; fun f() { print y; return x; } return f(); }
\* print g();
UpvalueTwoProgram ==
    << Fun("g", << >>,
           << VarDecl("x", Num(1)), VarDecl("y", Num(2)),
              Fun("f", << >>, <<PrintStmt(Var("y")), ReturnStmt(Var("x"))>>),
              ReturnStmt(Call(Var("f"), << >>)) >>),
       PrintStmt(Call(Var("g"), << >>)) >>

\* fun g() { var x = 1;
\*           fun e() { var y = 2; print x; fun f() { return y; } return f(); }
\*           return e(); }
\* print g();
UpvalueAfterOwnProgram ==
    << Fun("g", << >>,
           << VarDecl("x", Num(1)),
              Fun("e", << >>,
                  << VarDecl("y", Num(2)), PrintStmt(Var("x")),
                     Fun("f", << >>, <<ReturnStmt(Var("y"))>>),
                     ReturnStmt(Call(Var("f"), << >>)) >>),
              ReturnStmt(Call(Var("e"), << >>)) >>),
       PrintStmt(Call(Var("g"), << >>)) >>

\* the programs that read captured variables, and what each prints when a
\* name denotes the variable of the nearest enclosing declaration
UpvaluePrograms == <<UpvalueThroughProgram, UpvalueTwoProgram, UpvalueAfterOwnProgram>>

UpvalueOutputs == << <<"1">>, <<"2", "1">>, <<"1", "2">> >>

\* var g = 1; if (g == 1) print g; else print 2;
IfLastProgram ==
    << VarDecl("g", Num(1)),
       If(Binary(Var("g"), "EqualEqual", Num(1)), PrintStmt(Var("g")), PrintStmt(Num(2))) >>

\* var h = 0; while (h < 1) h = h + 1;
WhileLastProgram ==
    << VarDecl("h", Num(0)),
       While(Binary(Var("h"), "Less", Num(1)),
             ExprStmt(Assign(Var("h"), Binary(Var("h"), "Plus", Num(1))))) >>

\* fun foo(a, b) { print a; if (a > 0) { foo(a - 1); } }  foo(2);
\* (the test function_recursive)
FunctionRecursiveProgram ==
    << Fun("foo", <<Param("a"), Param("b")>>,
           << PrintStmt(Var("a")),
              If(Binary(Var("a"), "Greater", Num(0)),
                 Block(<<ExprStmt(Call(Var("foo"), <<Binary(Var("a"), "Minus", Num(1))>>))>>),
                 Absent) >>),
       ExprStmt(Call(Var("foo"), <<Num(2)>>)) >>

\* fun f(a, b, c) { print a; print b; }  f(1, 2);
UnusedParameterProgram ==
    << Fun("f", <<Param("a"), Param("b"), Param("c")>>,
           <<PrintStmt(Var("a")), PrintStmt(Var("b"))>>),
       ExprStmt(Call(Var("f"), <<Num(1), Num(2)>>)) >>

\* fun f(a, b) { print a; print b; }  f(1);
ReadParameterProgram ==
    << Fun("f", <<Param("a"), Param("b")>>, <<PrintStmt(Var("a")), PrintStmt(Var("b"))>>),
       ExprStmt(Call(Var("f"), <<Num(1)>>)) >>

\* the programs that call a function with fewer arguments than it has
\* parameters, and what the supplied arguments make them print
ArityPrograms == <<FunctionRecursiveProgram, UnusedParameterProgram, ReadParameterProgram>>

ArityOutputs == << <<"2", "1", "0">>, <<"1", "2">>, <<"1">> >>

\* fun f(a, b, c) { c = 9; }  { var x = 1; f(2); print x; }
AssignMissingProgram ==
    << Fun("f", <<Param("a"), Param("b"), Param("c")>>, <<ExprStmt(Assign(Var("c"), Num(9)))>>),
       Block(<< VarDecl("x", Num(1)), ExprStmt(Call(Var("f"), <<Num(2)>>)),
                PrintStmt(Var("x")) >>) >>

\* the programs whose callee assigns to a parameter that got no argument
FramePrograms == <<AssignMissingProgram>>

\* fun make(n) { class C { get() { print n; } } return C(); }
\* var a = make(1); var b = make(2); a.get();
ClassTwiceProgram ==
    << Fun("make", <<Param("n")>>,
           << Class("C", <<Fun("get", << >>, <<PrintStmt(Var("n"))>>)>>, ""),
              ReturnStmt(Call(Var("C"), << >>)) >>),
       VarDecl("a", Call(Var("make"), <<Num(1)>>)),
       VarDecl("b", Call(Var("make"), <<Num(2)>>)),
       ExprStmt(Call(Field(Var("a"), "get"), << >>)) >>

\* the programs that execute a class declaration more than once
DeclaredTwicePrograms == <<ClassTwiceProgram>>

\* the programs that end with a statement that jumps
JumpPrograms == <<IfLastProgram, WhileLastProgram>>

CorePrograms ==
    [n \in 1..(MaxArgs + 1) |-> CallProgram(n - 1)]
    \o [n \in 1..(MaxArgs + 1) |-> InstantiateProgram(n - 1, TRUE)]
    \o [n \in 1..(MaxArgs + 1) |-> InstantiateProgram(n - 1, FALSE)]
    \o << CaptureReadProgram, CaptureSharedProgram, CaptureWriteProgram,
          ClosureSetCapturedProgram, LocalAfterCallProgram, AssignParameterProgram,
          StatementsProgram, ErrorInCallProgram, ErrorInInitProgram,
          SetUndeclaredProgram, GetUndeclaredProgram, MissingArgumentProgram,
          NotCallableProgram, ClassProgram, InheritProgram,
          FieldProgram, ReadInInitProgram, InheritOverrideProgram,
          EqualOrderProgram >>

Programs ==
    CorePrograms \o ForPrograms \o UpvaluePrograms \o JumpPrograms \o ArityPrograms
    \o FramePrograms \o DeclaredTwicePrograms \o ShortCircuitPrograms

(***************************************************************************)
(* scanner.rs: the scanner.  A char is a string of one character, and None *)
(* the empty string.  Scanner.characters holds what is left of the source  *)
(* (advance pops its front); Scanner.index counts the characters consumed. *)
(* A Token carries in `text` what its Kind carries: the name of an         *)
(* IdentifierLiteral, the contents of a StringLiteral or Error, and the    *)
(* digits of a NumberLiteral, which str::parse turns into the f64 (see     *)
(* parse_f64).                                                             *)
(***************************************************************************)
\* `let x = value;` followed by the rest of a function
With(value, Rest(_)) == Rest(value)

\* the greatest usize, scaled down
UsizeMax == 63

Usize(n) == n % (UsizeMax + 1)

None == ""

\* source.to_string().chars().collect()
chars(source) == [i \in 1..Len(source) |-> SubSeq(source, i, i)]

Scanner_new(source) == [characters |-> chars(source), line |-> 1, index |-> 0]

\* Scanner::peek: self.characters.get(count)
Scanner_peek(s, count) ==
    IF count < Len(s.characters) THEN s.characters[count + 1] ELSE None

\* Scanner::advance: the index counts on when nothing is left
Scanner_advance(s) ==
    [ch |-> Scanner_peek(s, 0),
     scanner |-> [s EXCEPT !.index = Usize(@ + 1),
                           !.characters = IF @ = << >> THEN @ ELSE Tail(@)]]

is_digit(ch) == ch \in {"0", "1", "2", "3", "4", "5", "6", "7", "8", "9"}

is_alpha_or_under(ch) ==
    ch \in {"a", "b", "c", "d", "e", "f", "g", "h", "i", "j", "k", "l", "m", "n", "o", "p",
            "q", "r", "s", "t", "u", "v", "w", "x", "y", "z", "A", "B", "C", "D", "E", "F",
            "G", "H", "I", "J", "K", "L", "M", "N", "O", "P", "Q", "R", "S", "T", "U", "V",
            "W", "X", "Y", "Z", "_"}

\* String::push over a sequence of chars
RECURSIVE collect(_)
collect(characters) ==
    IF characters = << >> THEN "" ELSE Head(characters) \o collect(Tail(characters))

\* Scanner::read_front: advance `count` times, keeping the chars there were
read_front(s, count) ==
    LET taken == IF count < Len(s.characters) THEN count ELSE Len(s.characters)
    IN  [front |-> collect(SubSeq(s.characters, 1, taken)),
         scanner |-> [s EXCEPT !.index = Usize(@ + count),
                               !.characters = SubSeq(@, taken + 1, Len(@))]]

make_span(s, length) == Span(s.index, s.index + length)

\* Scanner::make_token: the span of Eof is one character long
make_token(s, kind, length) ==
    [token |-> Token(kind, "", IF kind = "Eof" THEN make_span(s, 1) ELSE make_span(s, length)),
     scanner |-> read_front(s, length).scanner]

make_error_token(s, length) ==
    [token |-> Token("Error", read_front(s, length).front, make_span(s, length)),
     scanner |-> read_front(s, length).scanner]

\* the least length from `from` on at which the loop `while test { length += 1 }`
\* stops, its test failing at the latest where peek gives None
LengthUntil(s, from, Stops(_)) ==
    CHOOSE length \in from..(from + Len(s.characters)) :
        /\ Stops(length)
        /\ \A shorter \in from..(length - 1) : ~Stops(shorter)

\* the arms of identifier_literal: first letter, length and starts_with
Keywords ==
    [and |-> "And", class |-> "Class", else |-> "Else", false |-> "False", for |-> "For",
     fun |-> "Fun", if |-> "If", nil |-> "Nil", or |-> "Or", print |-> "Print",
     return |-> "Return", super |-> "Super", this |-> "This", true |-> "True",
     var |-> "Var", while |-> "While"]

identifier_literal(s) ==
    LET Stops(n) == ~(is_digit(Scanner_peek(s, n)) \/ is_alpha_or_under(Scanner_peek(s, n)))
        length == LengthUntil(s, 1, Stops)
        word == read_front(s, length)
    IN  IF word.front \in DOMAIN Keywords
        THEN make_token(s, Keywords[word.front], length)
        ELSE [token |-> Token("IdentifierLiteral", word.front, make_span(s, length)),
              scanner |-> word.scanner]

number_literal(s) ==
    LET Stops(n) == ~is_digit(Scanner_peek(s, n))
        whole == LengthUntil(s, 1, Stops)
        length == IF Scanner_peek(s, whole) = "." /\ is_digit(Scanner_peek(s, whole + 1))
                  THEN LengthUntil(s, whole + 2, Stops)
                  ELSE whole
    IN  [token |-> Token("NumberLiteral", read_front(s, length).front, make_span(s, length)),
         scanner |-> read_front(s, length).scanner]

\* Scanner::string_literal: without a closing quote the loop runs to
\* characters.len() + 1, and the Error token takes all characters but the last
string_literal(s) ==
    LET Stops(n) == ~(Scanner_peek(s, n) # "\"" /\ n <= Len(s.characters))
        length == LengthUntil(s, 1, Stops)
        quoted == read_front(s, length + 1)
    IN  IF length >= Len(s.characters)
        THEN make_error_token(s, Len(s.characters) - 1)
        ELSE [token |-> Token("StringLiteral",
                              collect(SubSeq(s.characters, 2, length)),
                              make_span(s, length + 1)),
              scanner |-> quoted.scanner]

\* the kinds of the tokens of one character, and of those that take a `=`
Single ==
    [c \in {"{", "}", "(", ")", ",", ".", "-", "+", "/", "*", ";"} |->
        CASE c = "{" -> "LeftBrace" [] c = "}" -> "RightBrace" [] c = "(" -> "LeftParen"
          [] c = ")" -> "RightParen" [] c = "," -> "Comma" [] c = "." -> "Dot"
          [] c = "-" -> "Minus" [] c = "+" -> "Plus" [] c = "/" -> "Slash"
          [] c = "*" -> "Star" [] c = ";" -> "Semicolon"]

Double ==
    [c \in {"!", "=", ">", "<"} |->
        CASE c = "!" -> <<"Bang", "BangEqual">> [] c = "=" -> <<"Equal", "EqualEqual">>
          [] c = ">" -> <<"Greater", "GreaterEqual">> [] c = "<" -> <<"Less", "LessEqual">>]

\* Scanner::next after consume_whitespace: the match on peek(0)
scan_token(s) ==
    LET ch == Scanner_peek(s, 0)
    IN  CASE ch = None -> make_token(s, "Eof", 0)
          [] ch \in DOMAIN Single -> make_token(s, Single[ch], 1)
          [] ch \in DOMAIN Double ->
               IF Scanner_peek(s, 1) = "=" THEN make_token(s, Double[ch][2], 2)
               ELSE make_token(s, Double[ch][1], 1)
          [] is_alpha_or_under(ch) -> identifier_literal(s)
          [] is_digit(ch) -> number_literal(s)
          [] ch = "\"" -> string_literal(s)
          [] OTHER -> make_error_token(s, 1)

\* one turn of the loop of consume_whitespace: whether it goes on ("next"),
\* enters the loop over a comment ("comment") or returns ("done")
whitespace_step(s) ==
    LET c == Scanner_peek(s, 0)
    IN  IF c \in {" ", "\t", "\r"} THEN [at |-> "next", scanner |-> Scanner_advance(s).scanner]
        ELSE IF c = "\n"
        THEN [at |-> "next", scanner |-> [Scanner_advance(s).scanner EXCEPT !.line = @ + 1]]
        ELSE IF c = "/" /\ Scanner_peek(s, 1) = "/" THEN [at |-> "comment", scanner |-> s]
        ELSE [at |-> "done", scanner |-> s]

\* one turn of `while self.advance() != Some('\n') {}`
comment_step(s) ==
    [at |-> IF Scanner_advance(s).ch = "\n" THEN "next" ELSE "comment",
     scanner |-> Scanner_advance(s).scanner]

\* Scanner::consume_whitespace, and its loop over a comment
RECURSIVE consume_whitespace(_)
RECURSIVE skip_comment(_)
skip_comment(s) ==
    With(comment_step(s), LAMBDA step :
        IF step.at = "next" THEN consume_whitespace(step.scanner)
        ELSE skip_comment(step.scanner))

consume_whitespace(s) ==
    With(whitespace_step(s), LAMBDA step :
        CASE step.at = "next" -> consume_whitespace(step.scanner)
          [] step.at = "comment" -> skip_comment(s)
          [] OTHER -> s)

\* Scanner::next: always Some(token)
Scanner_next(s) == scan_token(consume_whitespace(s))

\* str::parse::<f64> of the digits of a NumberLiteral
RECURSIVE digits_value(_)
digits_value(digits) ==
    IF digits = << >> THEN 0
    ELSE 10 * digits_value(DropLast(digits, 1))
         + (CHOOSE d \in 0..9 : ToString(d) = digits[Len(digits)])

parse_f64(text) ==
    LET digits == chars(text)
        dots == {i \in 1..Len(digits) : digits[i] = "."}
        point == IF dots = {} THEN Len(digits) + 1 ELSE CHOOSE i \in dots : TRUE
        whole == SubSeq(digits, 1, point - 1)
        fraction == SubSeq(digits, point + 1, Len(digits))
    IN  Rational(digits_value(whole \o fraction), 10 ^ Len(fraction))

\* no token yet
NoToken == Token("None", "", Span(0, 0))

\* no Parser has been made
NoParser ==
    [scanner |-> Scanner_new(""), current |-> NoToken, next |-> NoToken, checked |-> TRUE]

\* no source has been read and no span merged
Unread ==
    /\ scanner = Scanner_new("")
    /\ token = NoToken
    /\ parsed = [ok |-> TRUE, ast |-> << >>, errors |-> << >>]
    /\ merging = << >>
    /\ merged = Span(0, 0)
    /\ parser = NoParser
    /\ executable = Executable_new("")

(***************************************************************************)
(* parser.rs: the parser, by recursive descent.  A Parser is [scanner,     *)
(* current, next]; `checked` tells whether the build checks the arithmetic *)
(* for overflow.  A parsing function takes the Parser and gives the Result *)
(* and the Parser it leaves: [ok, panic, node, err, p], where node is what *)
(* Ok carries (a node, a Token, a list), err the ParsingError, and panic   *)
(* tells that the function has panicked.  Then(result, Rest) is `result?`  *)
(* followed by the rest of the function, and Self("f", p) is `self.f()`    *)
(* for a parsing function f.                                               *)
(***************************************************************************)
Parsed(p, node) == [ok |-> TRUE, panic |-> FALSE, node |-> node, err |-> NoError, p |-> p]

Failure(p, message, span) ==
    [ok |-> FALSE, panic |-> FALSE, node |-> Absent, err |-> Error(message, span), p |-> p]

Overflow(p) == [ok |-> FALSE, panic |-> TRUE, node |-> Absent, err |-> NoError, p |-> p]

Then(result, Rest(_)) == IF result.ok THEN Rest(result) ELSE result

Parser_new(source, checked) ==
    With(Scanner_next(Scanner_new(source)), LAMBDA current :
    With(Scanner_next(current.scanner), LAMBDA next :
        [scanner |-> next.scanner, current |-> current.token, next |-> next.token,
         checked |-> checked]))

\* Parser::advance: gives the token that was current
Parser_advance(p) ==
    With(Scanner_next(p.scanner), LAMBDA scanned :
        Parsed([p EXCEPT !.current = p.next, !.next = scanned.token,
                         !.scanner = scanned.scanner],
               p.current))

eat(p, kind, message) ==
    IF p.current.kind = kind THEN Parser_advance(p)
    ELSE Failure(p, message, p.current.span)

\* Parser::id_token: Ok((id, span))
id_token(p) ==
    With(Parser_advance(p), LAMBDA advanced :
        IF advanced.node.kind = "IdentifierLiteral"
        THEN Parsed(advanced.p, [name |-> advanced.node.text, span |-> advanced.node.span])
        ELSE Failure(advanced.p, "Expected identifier.", advanced.node.span))

RECURSIVE Self(_, _)
RECURSIVE arguments_loop(_, _)
RECURSIVE call_loop(_, _)
RECURSIVE multiplication_loop(_, _)
RECURSIVE addition_loop(_, _)
RECURSIVE comparison_loop(_, _)
RECURSIVE equality_loop(_, _)
RECURSIVE parameters_loop(_, _)
RECURSIVE block_loop(_, _)
RECURSIVE methods_loop(_, _)
RECURSIVE synchronize_loop(_)
RECURSIVE parse_declarations(_, _, _)

\* Parser::number and Parser::string
number(p) ==
    With(Parser_advance(p), LAMBDA advanced :
        IF advanced.node.kind = "NumberLiteral"
        THEN Parsed(advanced.p, AstConstant(advanced.node.span, parse_f64(advanced.node.text)))
        ELSE Failure(advanced.p, "Expected a NumberLiteral.", advanced.node.span))

string(p) ==
    With(Parser_advance(p), LAMBDA advanced :
        IF advanced.node.kind = "StringLiteral"
        THEN Parsed(advanced.p, AstConstant(advanced.node.span, ValueString(advanced.node.text)))
        ELSE Failure(advanced.p, "Expected a StringLiteral.", advanced.node.span))

\* the arms of Parser::primary that advance first
primary_after(p, kind, advanced) ==
    CASE kind = "LeftParen" ->
           Then(Self("expression", advanced.p), LAMBDA inner :
           Then(eat(inner.p, "RightParen", "Expected ')' after expression."), LAMBDA rparen :
               Parsed(rparen.p,
                      [inner.node EXCEPT !.span = merge(<<advanced.node.span, inner.node.span,
                                                          rparen.node.span>>)])))
      [] kind = "IdentifierLiteral" ->
           Parsed(advanced.p, AstVariable(advanced.node.span, p.current.text))
      [] kind = "True" -> Parsed(advanced.p, AstConstant(advanced.node.span, ValueBool(TRUE)))
      [] kind = "False" -> Parsed(advanced.p, AstConstant(advanced.node.span, ValueBool(FALSE)))
      [] kind = "Nil" -> Parsed(advanced.p, AstConstant(advanced.node.span, ValueNil))
      [] kind = "This" -> Parsed(advanced.p, AstVariable(advanced.node.span, "this"))
      [] kind = "Super" ->
           Then(eat(advanced.p, "Dot", "Expected '.' after 'super'."), LAMBDA dot :
           Then(id_token(dot.p), LAMBDA name :
               Parsed(name.p,
                      AstSuperAccess(merge(<<advanced.node.span, name.node.span>>),
                                     name.node.name))))

primary(p) ==
    CASE p.current.kind = "NumberLiteral" -> Self("number", p)
      [] p.current.kind = "StringLiteral" -> Self("string", p)
      [] p.current.kind \in {"LeftParen", "IdentifierLiteral", "True", "False", "Nil", "This",
                             "Super"} ->
           primary_after(p, p.current.kind, Parser_advance(p))
      [] OTHER -> Failure(p, "Expected primary expression.", p.current.span)

\* Parser::argument_list, and its loop
arguments_loop(p, args) ==
    IF p.current.kind # "Comma" THEN Parsed(p, args)
    ELSE Then(Self("expression", Parser_advance(p).p), LAMBDA argument :
             arguments_loop(argument.p, Append(args, argument.node)))

argument_list(p) ==
    Then(Self("expression", p), LAMBDA first : arguments_loop(first.p, <<first.node>>))

\* Parser::call, and its loop
call_loop(p, node) ==
    CASE p.current.kind = "LeftParen" ->
           With(Parser_advance(p), LAMBDA advanced :
           Then(IF advanced.p.current.kind = "RightParen" THEN Parsed(advanced.p, << >>)
                ELSE Self("argument_list", advanced.p), LAMBDA arguments :
           Then(eat(arguments.p, "RightParen", "Expected ')' after argument list."),
                LAMBDA rparen :
               call_loop(rparen.p,
                         AstInvokation(merge(<<node.span, rparen.node.span>>), node,
                                       arguments.node)))))
      [] p.current.kind = "Dot" ->
           Then(id_token(Parser_advance(p).p), LAMBDA field :
               call_loop(field.p, AstFieldAccess(field.node.span, node, field.node.name)))
      [] OTHER -> Parsed(p, node)

call(p) == Then(Self("primary", p), LAMBDA target : call_loop(target.p, target.node))

\* Parser::unary: expression.span.start - 1 is a subtraction of usize
unary(p) ==
    IF p.current.kind \notin {"Minus", "Bang"} THEN Self("call", p)
    ELSE With(Parser_advance(p), LAMBDA operator :
         Then(Self("unary", operator.p), LAMBDA operand :
             IF operand.node.span[1] = 0 /\ p.checked THEN Overflow(operand.p)
             ELSE Parsed(operand.p,
                         AstUnary(Span(Usize(operand.node.span[1] + UsizeMax),
                                       operand.node.span[2]),
                                  operator.node, operand.node))))

\* the node made in the loops of the binary operators
BinaryNode(left, operator, right) ==
    AstBinary(merge(<<left.span, operator.span, right.span>>), left, operator, right)

\* Parser::multiplication, and its loop
multiplication_loop(p, node) ==
    IF p.current.kind \notin {"Star", "Slash"} THEN Parsed(p, node)
    ELSE With(Parser_advance(p), LAMBDA operator :
         Then(Self("unary", operator.p), LAMBDA right :
             multiplication_loop(right.p, BinaryNode(node, operator.node, right.node))))

multiplication(p) == Then(Self("unary", p), LAMBDA left : multiplication_loop(left.p, left.node))

\* Parser::addition, and its loop
addition_loop(p, node) ==
    IF p.current.kind \notin {"Plus", "Minus"} THEN Parsed(p, node)
    ELSE With(Parser_advance(p), LAMBDA operator :
         Then(Self("multiplication", operator.p), LAMBDA right :
             addition_loop(right.p, BinaryNode(node, operator.node, right.node))))

addition(p) == Then(Self("multiplication", p), LAMBDA left : addition_loop(left.p, left.node))

\* Parser::comparison, and its loop
comparison_loop(p, node) ==
    IF p.current.kind \notin {"Less", "LessEqual", "Greater", "GreaterEqual"}
    THEN Parsed(p, node)
    ELSE With(Parser_advance(p), LAMBDA operator :
         Then(Self("addition", operator.p), LAMBDA right :
             comparison_loop(right.p, BinaryNode(node, operator.node, right.node))))

comparison(p) == Then(Self("addition", p), LAMBDA left : comparison_loop(left.p, left.node))

\* Parser::equality, and its loop
equality_loop(p, node) ==
    IF p.current.kind \notin {"EqualEqual", "BangEqual"} THEN Parsed(p, node)
    ELSE With(Parser_advance(p), LAMBDA operator :
         Then(Self("comparison", operator.p), LAMBDA right :
             equality_loop(right.p, BinaryNode(node, operator.node, right.node))))

equality(p) == Then(Self("comparison", p), LAMBDA left : equality_loop(left.p, left.node))

\* Parser::logic_and and Parser::logic_or: the next level, nothing more
logic_and(p) == Self("equality", p)

logic_or(p) == Self("logic_and", p)

assignment(p) ==
    Then(Self("logic_or", p), LAMBDA node :
        IF node.p.current.kind # "Equal" THEN node
        ELSE Then(Self("assignment", Parser_advance(node.p).p), LAMBDA rvalue :
                 Parsed(rvalue.p,
                        AstAssignment(merge(<<node.node.span, rvalue.node.span>>), node.node,
                                      rvalue.node))))

expression(p) == Self("assignment", p)

print_statement(p) ==
    With(Parser_advance(p), LAMBDA keyword :
    Then(Self("expression", keyword.p), LAMBDA printed :
    Then(eat(printed.p, "Semicolon", "Expected ';' after print statement"), LAMBDA semi :
        Parsed(semi.p,
               AstPrint(merge(<<keyword.node.span, printed.node.span, semi.node.span>>),
                        printed.node)))))

\* Parser::block_statement: the token that is current is taken for the brace
block_loop(p, declarations) ==
    IF p.current.kind \in {"RightBrace", "Eof"} THEN Parsed(p, declarations)
    ELSE Then(Self("declaration", p), LAMBDA declared :
             block_loop(declared.p, Append(declarations, declared.node)))

block_statement(p) ==
    With(Parser_advance(p), LAMBDA lbrace :
    Then(block_loop(lbrace.p, << >>), LAMBDA declarations :
    Then(eat(declarations.p, "RightBrace", "Expected '}' after block statement"),
         LAMBDA rbrace :
        Parsed(rbrace.p,
               AstBlock(merge(<<lbrace.node.span, rbrace.node.span>>), declarations.node)))))

\* the end of Parser::if_statement, from `let else_block` on
else_statement(condition, if_block, span) ==
    IF if_block.p.current.kind # "Else"
    THEN Parsed(if_block.p, AstIf(span, condition.node, if_block.node, Absent))
    ELSE Then(Self("statement", Parser_advance(if_block.p).p), LAMBDA else_block :
             Parsed(else_block.p,
                    AstIf(merge(<<span, else_block.node.span>>), condition.node,
                          if_block.node, else_block.node)))

if_statement(p) ==
    With(Parser_advance(p), LAMBDA keyword :
    Then(eat(keyword.p, "LeftParen", "Expected '(' after 'if.'"), LAMBDA lparen :
    Then(Self("expression", lparen.p), LAMBDA condition :
    Then(eat(condition.p, "RightParen", "Expected ')' after if condition."), LAMBDA rparen :
    Then(Self("statement", rparen.p), LAMBDA if_block :
        else_statement(condition, if_block,
                       merge(<<keyword.node.span, if_block.node.span>>)))))))

while_statement(p) ==
    With(Parser_advance(p), LAMBDA keyword :
    Then(eat(keyword.p, "LeftParen", "Expected '(' after 'while.'"), LAMBDA lparen :
    Then(Self("expression", lparen.p), LAMBDA condition :
    Then(eat(condition.p, "RightParen", "Expected ')' after while condition."),
         LAMBDA rparen :
    Then(Self("statement", rparen.p), LAMBDA block :
        Parsed(block.p,
               AstWhile(merge(<<keyword.node.span, block.node.span>>), condition.node,
                        block.node)))))))

expression_statement(p) ==
    Then(Self("expression", p), LAMBDA inner :
    Then(eat(inner.p, "Semicolon", "Expected ';' after expression"), LAMBDA semi :
        Parsed(semi.p,
               AstExpressionStmt(merge(<<inner.node.span, semi.node.span>>), inner.node))))

var_declaration(p) ==
    With(Parser_advance(p), LAMBDA keyword :
    Then(id_token(keyword.p), LAMBDA name :
    Then(IF name.p.current.kind = "Equal" THEN Self("expression", Parser_advance(name.p).p)
         ELSE Parsed(name.p, Absent), LAMBDA initializer :
    Then(eat(initializer.p, "Semicolon", "Expected ';' after declaration."), LAMBDA semi :
        Parsed(semi.p,
               AstVarDeclaration(merge(<<keyword.node.span, semi.node.span>>),
                                 name.node.name, initializer.node))))))

\* `let initializer = match self.current.kind { .. }` of Parser::for_statement
for_initializer(p) ==
    CASE p.current.kind = "Var" -> Self("var_declaration", p)
      [] p.current.kind = "Semicolon" -> Parsed(Parser_advance(p).p, Absent)
      [] OTHER -> Self("expression_statement", p)

for_statement(p) ==
    With(Parser_advance(p), LAMBDA keyword :
    Then(eat(keyword.p, "LeftParen", "Expected '(' after 'for.'"), LAMBDA lparen :
    Then(Self("for_initializer", lparen.p), LAMBDA initializer :
    Then(IF initializer.p.current.kind = "Semicolon" THEN Parsed(initializer.p, Absent)
         ELSE Self("expression", initializer.p), LAMBDA condition :
    Then(eat(condition.p, "Semicolon", "Expected ';' after for condition."), LAMBDA semi :
    Then(IF semi.p.current.kind = "RightParen" THEN Parsed(semi.p, Absent)
         ELSE Self("expression", semi.p), LAMBDA update :
    Then(eat(update.p, "RightParen", "Expected ')' before for block."), LAMBDA rparen :
    Then(Self("statement", rparen.p), LAMBDA block :
        Parsed(block.p,
               AstFor(merge(<<keyword.node.span, block.node.span>>), initializer.node,
                      condition.node, update.node, block.node))))))))))

return_statement(p) ==
    With(Parser_advance(p), LAMBDA keyword :
    Then(IF keyword.p.current.kind = "Semicolon" THEN Parsed(keyword.p, Absent)
         ELSE Self("expression", keyword.p), LAMBDA value :
    Then(eat(value.p, "Semicolon", "Expected ';' after return statement."), LAMBDA semi :
        Parsed(semi.p,
               AstReturn(IF value.node = Absent THEN keyword.node.span
                         ELSE merge(<<keyword.node.span, value.node.span>>),
                         value.node)))))

statement(p) ==
    CASE p.current.kind = "Print" -> Self("print_statement", p)
      [] p.current.kind = "LeftBrace" -> Self("block_statement", p)
      [] p.current.kind = "If" -> Self("if_statement", p)
      [] p.current.kind = "While" -> Self("while_statement", p)
      [] p.current.kind = "For" -> Self("for_statement", p)
      [] p.current.kind = "Return" -> Self("return_statement", p)
      [] OTHER -> Self("expression_statement", p)

\* Parser::parameter_list, and its loop
parameters_loop(p, parameters) ==
    IF p.current.kind # "Comma" THEN Parsed(p, parameters)
    ELSE With(Parser_advance(Parser_advance(p).p), LAMBDA param_name :
             IF param_name.node.kind = "IdentifierLiteral"
             THEN parameters_loop(param_name.p, Append(parameters, param_name.node))
             ELSE Failure(param_name.p, "Expected parameter name.", param_name.node.span))

parameter_list(p) ==
    With(Parser_advance(p), LAMBDA first : parameters_loop(first.p, <<first.node>>))

\* `let parameters = match self.current.kind { .. }` of function and of a method
formal_parameters(p) ==
    CASE p.current.kind = "RightParen" -> Parsed(p, << >>)
      [] p.current.kind = "IdentifierLiteral" -> Self("parameter_list", p)
      [] OTHER -> Failure(p, "Expected parameter list or ')'.", p.current.span)

\* Parser::function, and a method in the loop of Parser::class_declaration, which
\* differs in the message after the name
function_named(p, message) ==
    Then(id_token(p), LAMBDA name :
    Then(eat(name.p, "LeftParen", message), LAMBDA lparen :
    Then(Self("formal_parameters", lparen.p), LAMBDA parameters :
    Then(eat(parameters.p, "RightParen", "Expected ')' after formal parameter list"),
         LAMBDA rparen :
    Then(Self("block_statement", rparen.p), LAMBDA body :
        Parsed(body.p,
               AstFunDeclaration(merge(<<name.node.span, body.node.span>>), name.node.name,
                                 parameters.node, body.node)))))))

function(p) == function_named(p, "Expected '(' after function name")

\* Parser::class_declaration: the loop over its methods
methods_loop(p, methods) ==
    IF p.current.kind \in {"RightBrace", "Eof"} THEN Parsed(p, methods)
    ELSE Then(function_named(p, "Expected '(' after method name"), LAMBDA parsed_method :
             methods_loop(parsed_method.p, Append(methods, parsed_method.node)))

\* Parser::class_declaration, from the `{` on
class_body(keyword, name, superclass_name, p) ==
    Then(eat(p, "LeftBrace", "Expected '{' after class declaration"), LAMBDA lbrace :
    Then(methods_loop(lbrace.p, << >>), LAMBDA methods :
    Then(eat(methods.p, "RightBrace", "Expected '}' after class body"), LAMBDA end_brace :
        Parsed(end_brace.p,
               AstClassDeclaration(merge(<<keyword.span, end_brace.node.span>>), name,
                                   methods.node, superclass_name)))))

class_declaration(p) ==
    Then(eat(p, "Class", "Expected 'class' keyword"), LAMBDA keyword :
    Then(id_token(keyword.p), LAMBDA name :
        IF name.p.current.kind # "Less" THEN class_body(keyword.node, name.node.name, "", name.p)
        ELSE Then(id_token(Parser_advance(name.p).p), LAMBDA superclass :
                 IF superclass.node.name = name.node.name
                 THEN Failure(superclass.p,
                              "Class " \o superclass.node.name \o " cannot inherit from itself",
                              superclass.node.span)
                 ELSE class_body(keyword.node, name.node.name, superclass.node.name,
                                 superclass.p))))

declaration(p) ==
    CASE p.current.kind = "Var" -> Self("var_declaration", p)
      [] p.current.kind = "Class" -> Self("class_declaration", p)
      [] p.current.kind = "Fun" -> Self("function", Parser_advance(p).p)
      [] OTHER -> Self("statement", p)

\* self.f(): the parsing function of that name
Self(f, p) ==
    CASE f = "number" -> number(p)
      [] f = "string" -> string(p)
      [] f = "primary" -> primary(p)
      [] f = "argument_list" -> argument_list(p)
      [] f = "call" -> call(p)
      [] f = "unary" -> unary(p)
      [] f = "multiplication" -> multiplication(p)
      [] f = "addition" -> addition(p)
      [] f = "comparison" -> comparison(p)
      [] f = "equality" -> equality(p)
      [] f = "logic_and" -> logic_and(p)
      [] f = "logic_or" -> logic_or(p)
      [] f = "assignment" -> assignment(p)
      [] f = "expression" -> expression(p)
      [] f = "print_statement" -> print_statement(p)
      [] f = "block_statement" -> block_statement(p)
      [] f = "if_statement" -> if_statement(p)
      [] f = "while_statement" -> while_statement(p)
      [] f = "expression_statement" -> expression_statement(p)
      [] f = "var_declaration" -> var_declaration(p)
      [] f = "for_initializer" -> for_initializer(p)
      [] f = "for_statement" -> for_statement(p)
      [] f = "return_statement" -> return_statement(p)
      [] f = "statement" -> statement(p)
      [] f = "parameter_list" -> parameter_list(p)
      [] f = "formal_parameters" -> formal_parameters(p)
      [] f = "function" -> function(p)
      [] f = "class_declaration" -> class_declaration(p)
      [] f = "declaration" -> declaration(p)

\* one turn of the loop of Parser::synchronize: whether it goes on
synchronize_step(p) ==
    CASE p.current.kind \in {"Semicolon", "Eof"} -> [at |-> "done", p |-> Parser_advance(p).p]
      [] p.current.kind \in {"LeftBrace", "RightBrace"} -> [at |-> "done", p |-> p]
      [] OTHER -> [at |-> "loop", p |-> Parser_advance(p).p]

synchronize_loop(p) ==
    With(synchronize_step(p), LAMBDA step :
        IF step.at = "done" THEN step.p ELSE synchronize_loop(step.p))

synchronize(p) == synchronize_loop(Parser_advance(p).p)

\* Parser::parse_program, its loop: what it collects, and the Parser it leaves
parse_declarations(p, program, errors) ==
    IF p.current.kind = "Eof"
    THEN [program |-> program, errors |-> errors, panic |-> FALSE, p |-> p]
    ELSE With(Self("declaration", p), LAMBDA declared :
             IF declared.ok
             THEN parse_declarations(declared.p, Append(program, declared.node), errors)
             ELSE IF declared.panic
             THEN [program |-> program, errors |-> errors, panic |-> TRUE, p |-> declared.p]
             ELSE parse_declarations(synchronize(declared.p), program,
                                     Append(errors, declared.err)))

(***************************************************************************)
(* vm.rs: the virtual machine.                                             *)
(*                                                                         *)
(* status is "running" inside the loop of interpret, "returned" when an    *)
(* interpret has returned Ok(()) to its caller, "error" while an Err is    *)
(* handed up by `?`, "ok" / "failed" when the outermost interpret has      *)
(* returned, and "panicked" when the process has panicked.                 *)
(*                                                                         *)
(* One element of callstack is one activation of interpret:                *)
(*   closure      the ObjClosure it runs                                   *)
(*   kind         "script", or what Invoke found: "closure", "method"      *)
(*                (a bound method) or "init" (a class with an initializer) *)
(*   ip_backup, base_backup, arg_count   the locals of VM::call            *)
(*   instance, class                     the locals of VM::instantiate     *)
(*   shadow       for the properties: the value each local variable of the *)
(*                activation was last given, by slot                       *)
(*   entry        for the properties: the depth of the stack when the code *)
(*                of each statement was last entered, by statement         *)
(***************************************************************************)
Heap == [functions |-> functions, closures |-> closures, classes |-> classes,
         instances |-> instances]

Activation == callstack[Len(callstack)]

CurrentClosure == closures[Activation.closure]

Bin == functions[CurrentClosure.function].bin

\* closure.function.bin[self.ip]
Instruction == At(Bin.code, ip)

\* closure.function.bin.spans[self.ip - 1], self.ip being already incremented
CurrentSpan == At(Bin.spans, ip)

\* the classes whose methods are under the borrow_mut() of VM::instantiate
Locked == {callstack[i].class : i \in {j \in 1..Len(callstack) : callstack[j].kind = "init"}}

NewActivation(closure, kind, arg_count, instance, class) ==
    [closure |-> closure, kind |-> kind, ip_backup |-> ip + 1, base_backup |-> base,
     arg_count |-> arg_count, instance |-> instance, class |-> class,
     shadow |-> EmptyMap, entry |-> EmptyMap]

\* what the properties record when the activation reaches ip2 with stack2
Observe(frame, bin, ip2, stack2) ==
    LET slots == IF stack2 = << >> THEN {}
                 ELSE {bin.decls[i].slot : i \in {j \in 1..Len(bin.decls) : bin.decls[j].ip = ip2}}
        entered == {j \in 1..Len(bin.stmts) : bin.stmts[j].start = ip2}
    IN  [frame EXCEPT
           !.shadow = [k \in (DOMAIN frame.shadow) \cup slots |->
                         IF k \in slots THEN stack2[Len(stack2)] ELSE frame.shadow[k]],
           !.entry = [j \in (DOMAIN frame.entry) \cup entered |->
                        IF j \in entered THEN Len(stack2) ELSE frame.entry[j]]]

\* VM::peek(distance), when it is Ok
peek(distance) == stack[Len(stack) - distance]

PeekError(distance, length) ==
    Error("Attempted to peek(" \o ToString(distance) \o ") but stack length is "
          \o ToString(length) \o ".", Span(0, 0))

PopError == Error("Attempted pop() on an empty stack", Span(0, 0))

\* the loop of interpret is about to execute the opcode `name`
Fetch(name) == status = "running" /\ ip < len(Bin) /\ Instruction.op = name

\* the match arm is done: the loop goes on at ip2 with stack2
Continue(ip2, stack2) ==
    /\ ip' = ip2
    /\ stack' = stack2
    /\ callstack' = [callstack EXCEPT ![Len(callstack)] = Observe(@, Bin, ip2, stack2)]
    /\ UNCHANGED <<frontend, prog, runs, functions, base, status, error>>

\* the match arm returns Err(e), the stack being stack2
Raise(stack2, e) ==
    /\ ip' = ip + 1
    /\ stack' = stack2
    /\ status' = "error"
    /\ error' = e
    /\ UNCHANGED <<frontend, prog, runs, functions, base, callstack>>

\* the match arm panics: the process ends
Panic ==
    /\ ip' = ip + 1
    /\ status' = "panicked"
    /\ UNCHANGED <<frontend, prog, runs, functions, base, stack, callstack, error>>

\* OpCode::Constant(index)
OpConstant ==
    /\ Fetch("Constant")
    /\ IF Instruction.a >= Len(Bin.constants) THEN Panic
       ELSE Continue(ip + 1, Append(stack, get_constant(Bin, Instruction.a)))
    /\ UNCHANGED <<globals, closures, classes, instances, output>>

\* OpCode::Negate
OpNegate ==
    /\ Fetch("Negate")
    /\ IF stack = << >> THEN Raise(stack, PopError)
       ELSE IF ~is_number(peek(0))
       THEN Raise(DropLast(stack, 1), Error("Cannot negate non-numeric types", CurrentSpan))
       ELSE Continue(ip + 1, Append(DropLast(stack, 1), neg(peek(0))))
    /\ UNCHANGED <<globals, closures, classes, instances, output>>

\* OpCode::Pop
OpPop ==
    /\ Fetch("Pop")
    /\ IF stack = << >> THEN Raise(stack, PopError)
       ELSE Continue(ip + 1, DropLast(stack, 1))
    /\ UNCHANGED <<globals, closures, classes, instances, output>>

\* OpCode::Not
OpNot ==
    /\ Fetch("Not")
    /\ IF stack = << >> THEN Raise(stack, PopError)
       ELSE Continue(ip + 1, Append(DropLast(stack, 1), ValueBool(~is_truthy(peek(0)))))
    /\ UNCHANGED <<globals, closures, classes, instances, output>>

\* OpCode::Bool
OpBool ==
    /\ Fetch("Bool")
    /\ IF stack = << >> THEN Raise(stack, PopError)
       ELSE Continue(ip + 1, Append(DropLast(stack, 1), ValueBool(is_truthy(peek(0)))))
    /\ UNCHANGED <<globals, closures, classes, instances, output>>

\* OpCode::Return: the value on top is copied to stack[base], interpret returns Ok
OpReturn ==
    /\ Fetch("Return")
    /\ IF stack = << >> THEN Raise(stack, PeekError(0, 0))
       ELSE IF base >= Len(stack) THEN Panic
       ELSE /\ ip' = ip + 1
            /\ stack' = Put(stack, base, peek(0))
            /\ status' = "returned"
            /\ UNCHANGED <<frontend, prog, runs, functions, base, callstack, error>>
    /\ UNCHANGED <<globals, closures, classes, instances, output>>

\* OpCode::Print
OpPrint ==
    /\ Fetch("Print")
    /\ IF stack = << >>
       THEN Raise(stack, PopError) /\ output' = output
       ELSE /\ Continue(ip + 1, DropLast(stack, 1))
            /\ output' = Append(output, Display(Heap, peek(0)))
    /\ UNCHANGED <<globals, closures, classes, instances>>

\* OpCode::Jump(destination)
OpJump ==
    /\ Fetch("Jump")
    /\ Continue(Instruction.a, stack)
    /\ UNCHANGED <<globals, closures, classes, instances, output>>

\* OpCode::JumpIfTrue(destination)
OpJumpIfTrue ==
    /\ Fetch("JumpIfTrue")
    /\ IF stack = << >> THEN Raise(stack, PeekError(0, 0))
       ELSE Continue(IF is_truthy(peek(0)) THEN Instruction.a ELSE ip + 1, stack)
    /\ UNCHANGED <<globals, closures, classes, instances, output>>

\* OpCode::JumpIfFalse(destination)
OpJumpIfFalse ==
    /\ Fetch("JumpIfFalse")
    /\ IF stack = << >> THEN Raise(stack, PeekError(0, 0))
       ELSE Continue(IF ~is_truthy(peek(0)) THEN Instruction.a ELSE ip + 1, stack)
    /\ UNCHANGED <<globals, closures, classes, instances, output>>

\* OpCode::GetLocal(index)
OpGetLocal ==
    /\ Fetch("GetLocal")
    /\ IF base + Instruction.a >= Len(stack) THEN Panic
       ELSE Continue(ip + 1, Append(stack, At(stack, base + Instruction.a)))
    /\ UNCHANGED <<globals, closures, classes, instances, output>>

\* OpCode::SetLocal(index): the value on top is copied to stack[len - 2 - index]
OpSetLocal ==
    /\ Fetch("SetLocal")
    /\ IF stack = << >> THEN Raise(stack, PeekError(0, 0))
       ELSE IF Len(stack) - 2 - Instruction.a < 0 THEN Panic
       ELSE /\ ip' = ip + 1
            /\ stack' = Put(stack, Len(stack) - 2 - Instruction.a, peek(0))
            /\ callstack' = [callstack EXCEPT ![Len(callstack)] =
                               Observe([@ EXCEPT !.shadow = MapInsert(@, Instruction.a, peek(0))],
                                       Bin, ip + 1, stack')]
            /\ UNCHANGED <<frontend, prog, runs, functions, base, status, error>>
    /\ UNCHANGED <<globals, closures, classes, instances, output>>

\* impl PartialOrd for Value, on two numbers: "Equal", "Less" or "Greater"
partial_cmp(l, r) ==
    IF number_eq(l, r) THEN "Equal" ELSE IF number_lt(l, r) THEN "Less" ELSE "Greater"

\* a type check that looks at the left operand only
BinaryCheck_LeftOnly(op, left, right, span) ==
    CASE op \in {"Subtract", "Multiply", "Divide", "Less", "LessEqual", "Greater",
                 "GreaterEqual"} ->
           IF ~is_number(left)
           THEN Error("Cannot apply '" \o op \o "' to non-numeric types", span)
           ELSE NoError
      [] op = "Add" ->
           IF ~is_number(left) /\ ~is_string(left)
           THEN Error("Cannot apply '+' to non-numeric or non-string type", span)
           ELSE NoError
      [] OTHER -> NoError

\* VM::binary_op: the type check; NoError when the operands pass
BinaryCheck(op, left, right, span) ==
    CASE op \in {"Subtract", "Multiply", "Divide", "Less", "LessEqual", "Greater",
                 "GreaterEqual"} ->
           IF ~is_number(left) \/ ~is_number(right)
           THEN Error("Cannot apply '" \o op \o "' to non-numeric types", span)
           ELSE NoError
      [] op = "Add" ->
           IF is_number(left) /\ ~is_number(right)
           THEN Error("Cannot apply '+' to Number and Non-Number", span)
           ELSE IF is_string(left) /\ ~is_string(right)
           THEN Error("Cannot apply '+' to String and Non-String", span)
           ELSE IF ~is_number(left) /\ ~is_string(left)
           THEN Error("Cannot apply '+' to non-numeric or non-string type", span)
           ELSE NoError
      [] OTHER -> NoError

\* VM::binary_op: the value of an operation other than Equal and NotEqual
BinaryValue(op, left, right) ==
    CASE op = "Add" -> IF is_number(left) THEN add(left, right)
                       ELSE ValueString(left.s \o right.s)
      [] op = "Subtract" -> sub(left, right)
      [] op = "Multiply" -> mul(left, right)
      [] op = "Divide" -> div(left, right)
      [] op = "Less" -> ValueBool(partial_cmp(left, right) = "Less")
      [] op = "LessEqual" -> ValueBool(partial_cmp(left, right) \in {"Less", "Equal"})
      [] op = "Greater" -> ValueBool(partial_cmp(left, right) = "Greater")
      [] op = "GreaterEqual" -> ValueBool(partial_cmp(left, right) \in {"Greater", "Equal"})

BinaryOps ==
    {"Add", "Subtract", "Multiply", "Divide", "Less", "LessEqual", "Greater",
     "GreaterEqual", "Equal", "NotEqual"}

\* OpCode::Add | .. | OpCode::NotEqual: VM::binary_op
OpBinary ==
    /\ status = "running" /\ ip < len(Bin) /\ Instruction.op \in BinaryOps
    /\ LET op == Instruction.op
           right == peek(0)
           left == peek(1)
           rest == DropLast(stack, 2)
           check == BinaryCheck(op, left, right, CurrentSpan)
       IN  IF stack = << >> THEN Raise(stack, PopError)
           ELSE IF Len(stack) = 1 THEN Raise(<< >>, PopError)
           ELSE IF check # NoError THEN Raise(rest, check)
           ELSE IF op \in {"Equal", "NotEqual"}
           THEN \E outcome \in value_eq(Heap, Locked, {}, left, right) :
                  IF outcome \in {"overflow", "borrowed"} THEN Panic
                  ELSE Continue(ip + 1,
                                Append(rest, ValueBool((outcome = "true") = (op = "Equal"))))
           ELSE Continue(ip + 1, Append(rest, BinaryValue(op, left, right)))
    /\ UNCHANGED <<globals, closures, classes, instances, output>>

\* OpCode::GetGlobal(name_index): VM::get_global
OpGetGlobal ==
    /\ Fetch("GetGlobal")
    /\ IF Instruction.a >= Len(Bin.constants) THEN Panic
       ELSE LET name_arg == get_constant(Bin, Instruction.a)
            IN  IF ~is_string(name_arg)
                THEN Raise(stack, Error("Attempted to lookup global by non-string name "
                                        \o Debug(Heap, name_arg), CurrentSpan))
                ELSE IF name_arg.s \notin DOMAIN globals
                THEN Raise(stack, Error("Attempted to get unknown global " \o name_arg.s,
                                        CurrentSpan))
                ELSE Continue(ip + 1, Append(stack, globals[name_arg.s]))
    /\ UNCHANGED <<globals, closures, classes, instances, output>>

\* set_global without its contains_key test: the assignment creates the global
OpSetGlobal_Creating ==
    /\ Fetch("SetGlobal")
    /\ IF Instruction.a >= Len(Bin.constants) THEN Panic /\ globals' = globals
       ELSE LET name_arg == get_constant(Bin, Instruction.a)
            IN  IF ~is_string(name_arg)
                THEN /\ Raise(stack, Error("Attempted to set global by non-string name "
                                           \o Debug(Heap, name_arg), CurrentSpan))
                     /\ globals' = globals
                ELSE IF stack = << >>
                THEN Raise(stack, PeekError(0, 0)) /\ globals' = globals
                ELSE /\ Continue(ip + 1, stack)
                     /\ globals' = MapInsert(globals, name_arg.s, peek(0))
    /\ UNCHANGED <<closures, classes, instances, output>>

\* OpCode::SetGlobal(name_index): VM::set_global
OpSetGlobal ==
    /\ Fetch("SetGlobal")
    /\ IF Instruction.a >= Len(Bin.constants) THEN Panic /\ globals' = globals
       ELSE LET name_arg == get_constant(Bin, Instruction.a)
            IN  IF ~is_string(name_arg)
                THEN /\ Raise(stack, Error("Attempted to set global by non-string name "
                                           \o Debug(Heap, name_arg), CurrentSpan))
                     /\ globals' = globals
                ELSE IF name_arg.s \notin DOMAIN globals
                THEN /\ Raise(stack, Error("Assigned to set undeclared global " \o name_arg.s,
                                           CurrentSpan))
                     /\ globals' = globals
                ELSE IF stack = << >>
                THEN Raise(stack, PeekError(0, 0)) /\ globals' = globals
                ELSE /\ Continue(ip + 1, stack)
                     /\ globals' = MapInsert(globals, name_arg.s, peek(0))
    /\ UNCHANGED <<closures, classes, instances, output>>

\* OpCode::DeclareGlobal(name_index): VM::declare_global
OpDeclareGlobal ==
    /\ Fetch("DeclareGlobal")
    /\ IF Instruction.a >= Len(Bin.constants) THEN Panic /\ globals' = globals
       ELSE LET name_arg == get_constant(Bin, Instruction.a)
            IN  IF ~is_string(name_arg)
                THEN /\ Raise(stack, Error("Attempted to declare global by non-string name "
                                           \o Debug(Heap, name_arg), CurrentSpan))
                     /\ globals' = globals
                ELSE /\ Continue(ip + 1, stack)
                     /\ globals' = MapInsert(globals, name_arg.s, ValueNil)
    /\ UNCHANGED <<closures, classes, instances, output>>

\* the values a new closure captures: a copy of stack[base + index] for a local,
\* a copy of the value of the running closure's upvalue for the others
Captured(descriptors) ==
    [i \in 1..Len(descriptors) |->
       IF descriptors[i][1] THEN At(stack, base + descriptors[i][2])
       ELSE At(CurrentClosure.upvalues, descriptors[i][2])]

\* a descriptor names no stack slot / no upvalue: the index or the unwrap() panics
CaptureFails(descriptors) ==
    \E i \in 1..Len(descriptors) :
       IF descriptors[i][1] THEN base + descriptors[i][2] >= Len(stack)
       ELSE descriptors[i][2] >= Len(CurrentClosure.upvalues)

\* OpCode::Closure(index)
OpClosure ==
    /\ Fetch("Closure")
    /\ IF Instruction.a >= Len(Bin.constants) THEN Panic /\ closures' = closures
       ELSE LET arg_value == get_constant(Bin, Instruction.a)
            IN  IF arg_value.t # "Function"
                THEN /\ Raise(stack,
                              Error("Closure instruction expected function constant argument, but got "
                                    \o Display(Heap, arg_value), CurrentSpan))
                     /\ closures' = closures
                ELSE IF CaptureFails(functions[arg_value.n].upvalues)
                THEN Panic /\ closures' = closures
                ELSE /\ closures' = Append(closures,
                                           [function |-> arg_value.n,
                                            upvalues |-> Captured(functions[arg_value.n].upvalues)])
                     /\ Continue(ip + 1, Append(stack, ValueClosure(Len(closures) + 1)))
    /\ UNCHANGED <<globals, classes, instances, output>>

\* OpCode::GetUpvalue(index)
OpGetUpvalue ==
    /\ Fetch("GetUpvalue")
    /\ IF Instruction.a >= Len(CurrentClosure.upvalues) THEN Panic
       ELSE Continue(ip + 1, Append(stack, At(CurrentClosure.upvalues, Instruction.a)))
    /\ UNCHANGED <<globals, closures, classes, instances, output>>

\* OpCode::SetUpvalue(index): Vec::insert of the value on top at index
OpSetUpvalue ==
    /\ Fetch("SetUpvalue")
    /\ IF stack = << >> THEN Raise(stack, PeekError(0, 0)) /\ closures' = closures
       ELSE IF Instruction.a > Len(CurrentClosure.upvalues) THEN Panic /\ closures' = closures
       ELSE /\ closures' = [closures EXCEPT ![Activation.closure].upvalues =
                              VecInsert(@, Instruction.a, peek(0))]
            /\ Continue(ip + 1, stack)
    /\ UNCHANGED <<globals, classes, instances, output>>

\* OpCode::ReadField(name_index)
OpReadField ==
    /\ Fetch("ReadField")
    /\ IF Instruction.a >= Len(Bin.constants) THEN Panic
       ELSE LET name_constant == get_constant(Bin, Instruction.a)
                target_value == peek(0)
                rest == DropLast(stack, 1)
                instance == instances[target_value.n]
            IN  IF ~is_string(name_constant)
                THEN \* the span is spans[self.ip - 2]
                     IF ip = 0 THEN Panic
                     ELSE Raise(stack, Error("Expected field name ObjString but found "
                                             \o Debug(Heap, name_constant), At(Bin.spans, ip - 1)))
                ELSE IF stack = << >> THEN Raise(stack, PopError)
                ELSE IF target_value.t # "Instance"
                THEN Raise(rest, Error(Debug(Heap, target_value) \o " is not an instance",
                                       CurrentSpan))
                ELSE IF instance.class \in Locked THEN Panic
                ELSE IF name_constant.s \in DOMAIN classes[instance.class].methods
                THEN Continue(ip + 1,
                              Append(rest, ValueBoundMethod(target_value.n,
                                         classes[instance.class].methods[name_constant.s])))
                ELSE IF name_constant.s \in DOMAIN instance.fields
                THEN Continue(ip + 1, Append(rest, instance.fields[name_constant.s]))
                ELSE Raise(rest, Error(Debug(Heap, target_value) \o " has no field "
                                       \o name_constant.s, CurrentSpan))
    /\ UNCHANGED <<globals, closures, classes, instances, output>>

\* OpCode::SetField(name_index)
\* SetField storing into every instance of the target's class
OpSetField_Shared ==
    /\ Fetch("SetField")
    /\ Instruction.a < Len(Bin.constants)
    /\ is_string(get_constant(Bin, Instruction.a))
    /\ Len(stack) >= 2
    /\ peek(1).t = "Instance"
    /\ instances' = [i \in 1..Len(instances) |->
                        IF instances[i].class = instances[peek(1).n].class
                        THEN [instances[i] EXCEPT !.fields =
                                 MapInsert(@, get_constant(Bin, Instruction.a).s, peek(0))]
                        ELSE instances[i]]
    /\ Continue(ip + 1, Append(DropLast(stack, 2), peek(0)))
    /\ UNCHANGED <<globals, closures, classes, output>>

OpSetField ==
    /\ Fetch("SetField")
    /\ IF Instruction.a >= Len(Bin.constants) THEN Panic /\ instances' = instances
       ELSE LET field_name == get_constant(Bin, Instruction.a)
                rvalue == peek(0)
                target_value == peek(1)
                rest == DropLast(stack, 2)
            IN  IF ~is_string(field_name)
                THEN /\ IF ip = 0 THEN Panic
                        ELSE Raise(stack, Error("Expected field name ObjString but found "
                                                \o Debug(Heap, field_name), At(Bin.spans, ip - 1)))
                     /\ instances' = instances
                ELSE IF stack = << >> THEN Raise(stack, PopError) /\ instances' = instances
                ELSE IF Len(stack) = 1 THEN Raise(<< >>, PopError) /\ instances' = instances
                ELSE IF target_value.t # "Instance"
                THEN /\ Raise(rest, Error(Debug(Heap, target_value) \o " is not an instance",
                                          CurrentSpan))
                     /\ instances' = instances
                ELSE /\ instances' = [instances EXCEPT ![target_value.n].fields =
                                        MapInsert(@, field_name.s, rvalue)]
                     /\ Continue(ip + 1, Append(rest, rvalue))
    /\ UNCHANGED <<globals, closures, classes, output>>

\* OpCode::Method
OpMethod ==
    /\ Fetch("Method")
    /\ LET method_closure == peek(0)
           class == peek(1)
           rest == DropLast(stack, 1)
       IN  IF stack = << >> THEN Raise(stack, PopError) /\ classes' = classes
           ELSE IF method_closure.t # "Closure"
           THEN /\ Raise(rest, Error("Expected a closure value at the top of the stack",
                                     CurrentSpan))
                /\ classes' = classes
           ELSE IF rest = << >> THEN Raise(rest, PeekError(0, 0)) /\ classes' = classes
           ELSE IF class.t # "Class"
           THEN /\ Raise(rest, Error("Expected a class value at stack[top - 1]", CurrentSpan))
                /\ classes' = classes
           ELSE IF class.n \in Locked THEN Panic /\ classes' = classes
           ELSE /\ classes' = [classes EXCEPT ![class.n].methods =
                                 MapInsert(@, ClosureName(Heap, method_closure.n),
                                           method_closure.n)]
                /\ Continue(ip + 1, rest)
    /\ UNCHANGED <<globals, closures, instances, output>>

\* Inherit copying nothing
OpInherit_Nothing ==
    /\ Fetch("Inherit")
    /\ Len(stack) >= 2 /\ peek(1).t = "Class" /\ peek(0).t = "Class"
    /\ classes' = classes
    /\ Continue(ip + 1, stack)
    /\ UNCHANGED <<globals, closures, instances, output>>

\* OpCode::Inherit: every method of the superclass is copied into the class
OpInherit ==
    /\ Fetch("Inherit")
    /\ LET superclass == peek(1)
           class == peek(0)
           inherited == classes[superclass.n].methods
       IN  IF Len(stack) < 2 THEN Raise(stack, PeekError(1, Len(stack))) /\ classes' = classes
           ELSE IF superclass.t # "Class"
           THEN /\ Raise(stack, Error("Cannot inherit from a non-class value", CurrentSpan))
                /\ classes' = classes
           ELSE IF class.t # "Class"
           THEN /\ Raise(stack, Error("Cannot inherit into a non-class value", CurrentSpan))
                /\ classes' = classes
           ELSE IF \/ superclass.n \in Locked
                   \/ /\ DOMAIN inherited # {}
                      /\ (class.n \in Locked \/ class.n = superclass.n)
           THEN Panic /\ classes' = classes
           ELSE /\ classes' = [classes EXCEPT ![class.n].methods = inherited @@ @]
                /\ Continue(ip + 1, stack)
    /\ UNCHANGED <<globals, closures, instances, output>>

\* OpCode::GetSuper(name_index)
OpGetSuper ==
    /\ Fetch("GetSuper")
    /\ LET class == peek(0)
           receiver == peek(1)
           method_name == get_constant(Bin, Instruction.a)
       IN  IF stack = << >> THEN Raise(stack, PopError)
           ELSE IF class.t # "Class"
           THEN Raise(DropLast(stack, 1), Error("'super' is not a class", CurrentSpan))
           ELSE IF Instruction.a >= Len(Bin.constants) THEN Panic
           ELSE IF ~is_string(method_name)
           THEN Raise(DropLast(stack, 1),
                      Error("Expected string constant argument but got "
                            \o Display(Heap, method_name), CurrentSpan))
           ELSE IF class.n \in Locked THEN Panic
           ELSE IF method_name.s \notin DOMAIN classes[class.n].methods
           THEN Raise(DropLast(stack, 1),
                      Error("'super' has no method " \o method_name.s, CurrentSpan))
           ELSE IF Len(stack) = 1 THEN Raise(<< >>, PopError)
           ELSE IF receiver.t # "Instance"
           THEN Raise(DropLast(stack, 2),
                      Error("expected receiver instance on the stack", CurrentSpan))
           ELSE Continue(ip + 1,
                         Append(DropLast(stack, 2),
                                ValueBoundMethod(receiver.n,
                                                 classes[class.n].methods[method_name.s])))
    /\ UNCHANGED <<globals, closures, classes, instances, output>>

\* VM::call up to the nested interpret: base and ip are set for the callee, whose
\* activation starts with slot 0 (the receiver) and its arguments as locals
Enter(closure, kind, arg_count, stack2, instance, class) ==
    LET new_base == Len(stack2) - (arg_count + 1)
        callee == functions[closures[closure].function].bin
        frame == [NewActivation(closure, kind, arg_count, instance, class) EXCEPT
                    !.shadow = [k \in 0..arg_count |-> At(stack2, new_base + k)]]
    IN  /\ ip' = 0
        /\ base' = new_base
        /\ stack' = stack2
        /\ callstack' = Append(callstack, Observe(frame, callee, 0, stack2))
        /\ UNCHANGED <<frontend, prog, runs, functions, status, error>>

\* OpCode::Invoke(arg_count), with VM::instantiate up to its call of init
OpInvoke ==
    /\ Fetch("Invoke")
    /\ LET arg_count == Instruction.a
           callable == peek(arg_count + 1)
           this_slot == Len(stack) - (arg_count + 1)
           instance_value == ValueInstance(Len(instances) + 1)
       IN  IF Len(stack) <= arg_count + 1
           THEN /\ Raise(stack, PeekError(arg_count + 1, Len(stack)))
                /\ instances' = instances
           ELSE CASE callable.t = "Closure" ->
                       /\ Enter(callable.n, "closure", arg_count, stack, 0, 0)
                       /\ instances' = instances
                  [] callable.t = "BoundMethod" ->
                       /\ Enter(callable.m, "method", arg_count,
                                Put(stack, this_slot, ValueInstance(callable.n)), 0, 0)
                       /\ instances' = instances
                  [] callable.t = "Class" ->
                       IF callable.n \in Locked THEN Panic /\ instances' = instances
                       ELSE /\ instances' = Append(instances, [class |-> callable.n,
                                                               fields |-> EmptyMap])
                            /\ IF "init" \in DOMAIN classes[callable.n].methods
                               THEN Enter(classes[callable.n].methods["init"], "init",
                                          arg_count, Put(stack, this_slot, instance_value),
                                          instance_value, callable.n)
                               ELSE \* self.pop()?; self.push(instance_value)
                                    Continue(ip + 1, Append(DropLast(stack, 1), instance_value))
                  [] OTHER ->
                       /\ Raise(stack, Error("Cannot invoke " \o Display(Heap, callable),
                                             CurrentSpan))
                       /\ instances' = instances
    /\ UNCHANGED <<globals, closures, classes, output>>

\* while self.ip < closure.function.bin.len() is over: interpret returns Ok(())
LoopExit ==
    /\ status = "running"
    /\ ip >= len(Bin)
    /\ status' = "returned"
    /\ UNCHANGED <<frontend, prog, runs, functions, ip, base, stack, globals, closures, classes, instances, callstack,
                   error, output>>

\* VM::call after the nested interpret returned Ok: everything above stack[base] is
\* popped, ip and base are restored; then the rest of VM::instantiate, if it made
\* the call; then the loop of the caller goes on
CallReturn ==
    /\ status = "returned"
    /\ Len(callstack) > 1
    /\ LET frame == Activation
           caller == callstack[Len(callstack) - 1]
           caller_bin == functions[closures[caller.closure].function].bin
           returned == IF Len(stack) > base + 1 THEN SubSeq(stack, 1, base + 1) ELSE stack
           result == IF frame.kind = "init"
                     THEN Append(DropLast(returned, 2), frame.instance)
                     ELSE returned
       IN  /\ ip' = frame.ip_backup
           /\ base' = frame.base_backup
           /\ IF frame.kind = "init" /\ Len(returned) < 2
              THEN \* one of the two self.pop()? of instantiate fails
                   /\ stack' = << >>
                   /\ status' = "error"
                   /\ error' = PopError
                   /\ callstack' = DropLast(callstack, 1)
              ELSE /\ stack' = result
                   /\ status' = "running"
                   /\ error' = error
                   /\ callstack' = [DropLast(callstack, 1) EXCEPT ![Len(callstack) - 1] =
                                      Observe(caller, caller_bin, frame.ip_backup, result)]
    /\ UNCHANGED <<frontend, prog, runs, functions, globals, closures, classes, instances, output>>

\* VM::call dropping the Err of the nested interpret: it restores ip and base and
\* the caller goes on
Propagate_Swallowed ==
    /\ status = "error"
    /\ Len(callstack) > 1
    /\ callstack' = DropLast(callstack, 1)
    /\ ip' = Activation.ip_backup
    /\ base' = Activation.base_backup
    /\ status' = "running"
    /\ error' = NoError
    /\ UNCHANGED <<frontend, prog, runs, functions, stack, globals, closures, classes, instances, output>>

\* `?` in VM::call, VM::instantiate and the Invoke arm: the Err of the nested
\* interpret is returned by the interpret that made the call; ip and base stay
Propagate ==
    /\ status = "error"
    /\ Len(callstack) > 1
    /\ callstack' = DropLast(callstack, 1)
    /\ UNCHANGED <<frontend, prog, runs, functions, ip, base, stack, globals, closures, classes, instances, status,
                   error, output>>

\* the outermost interpret returns its Result to the driver
Finish ==
    /\ Len(callstack) = 1
    /\ status \in {"returned", "error"}
    /\ status' = IF status = "returned" THEN "ok" ELSE "failed"
    /\ UNCHANGED <<frontend, prog, runs, functions, ip, base, stack, globals, closures, classes, instances, callstack,
                   error, output>>

(***************************************************************************)
(* The run of a compiled program: VM::new(), then vm.interpret(&script).   *)
(***************************************************************************)
ScriptActivation(closure, bin, stack0) ==
    Observe([closure |-> closure, kind |-> "script", ip_backup |-> 0, base_backup |-> 0,
             arg_count |-> 0, instance |-> 0, class |-> 0, shadow |-> EmptyMap,
             entry |-> EmptyMap], bin, 0, stack0)

\* the VM at the call of interpret on the script closure of a compiled program
Start(p, compiled) ==
    /\ compiled.err = NoError
    /\ prog = p
    /\ runs = 1
    /\ Unread
    /\ functions = compiled.functions
    /\ ip = 0
    /\ base = 0
    /\ stack = << >>
    /\ globals = EmptyMap
    /\ closures = <<[function |-> Len(compiled.functions), upvalues |-> << >>]>>
    /\ classes = compiled.classes
    /\ instances = << >>
    /\ callstack = <<ScriptActivation(1, compiled.functions[Len(compiled.functions)].bin,
                                      << >>)>>
    /\ status = "running"
    /\ error = NoError
    /\ output = << >>

Init == \E p \in 1..Len(Programs) : Start(p, compile(Programs[p]))

Next ==
    \/ OpConstant
    \/ OpNegate
    \/ OpPop
    \/ OpNot
    \/ OpBool
    \/ OpReturn
    \/ OpPrint
    \/ OpJump
    \/ OpJumpIfTrue
    \/ OpJumpIfFalse
    \/ OpGetLocal
    \/ OpSetLocal
    \/ OpBinary
    \/ OpGetGlobal
    \/ OpSetGlobal
    \/ OpDeclareGlobal
    \/ OpClosure
    \/ OpGetUpvalue
    \/ OpSetUpvalue
    \/ OpReadField
    \/ OpSetField
    \/ OpMethod
    \/ OpInherit
    \/ OpGetSuper
    \/ OpInvoke
    \/ LoopExit
    \/ CallReturn
    \/ Propagate
    \/ Finish

Spec == Init /\ [][Next]_vars

(***************************************************************************)
(* One opcode from an arbitrary state of the VM: interpret is public and   *)
(* runs any ObjClosure, so the script is a hand-built Executable of one    *)
(* opcode, met with any stack and base.  The heap holds the closure of a   *)
(* function b (fun b(x) { return -x; }, capturing local 0 of its maker),   *)
(* a class K with the method b, and an instance of K with the field a.     *)
(***************************************************************************)
OperandOps ==
    {"Constant", "GetGlobal", "SetGlobal", "DeclareGlobal", "GetLocal", "SetLocal", "Jump",
     "JumpIfTrue", "JumpIfFalse", "Invoke", "Closure", "GetUpvalue", "ReadField",
     "SetField", "SetUpvalue", "GetSuper"}

PlainOps ==
    BinaryOps \cup {"Negate", "Pop", "Not", "Return", "Print", "Method", "Inherit", "Bool"}

Opcodes ==
    {Op(name, a) : name \in OperandOps, a \in 0..MaxIndex} \cup {Op0(name) : name \in PlainOps}

OpFunctions(opcode) ==
    << [name |-> "b", arity |-> 1, upvalues |-> << <<TRUE, 0>> >>,
        bin |-> [name |-> "b", code |-> <<Op("GetLocal", 1), Op0("Negate"), Op0("Return")>>,
                 constants |-> << >>, spans |-> <<Span(3, 4), Span(2, 4), Span(5, 12)>>,
                 stmts |-> << >>, decls |-> << >>]],
       [name |-> "script", arity |-> 0, upvalues |-> << >>,
        bin |-> [name |-> "script", code |-> <<opcode>>,
                 constants |-> <<ValueString("a"), ValueString("b"), ValueFunction(1)>>,
                 spans |-> <<Span(1, 2)>>, stmts |-> << >>, decls |-> << >>]] >>

\* the values of the stacks
OpValues == {ValueNumber(1), ValueNil, ValueClosure(1), ValueClass(1), ValueInstance(1)}

OpStacks == UNION {[1..n -> OpValues] : n \in 0..MaxStack}

InitOp ==
    \E opcode \in Opcodes, stack0 \in OpStacks :
       \E base0 \in 0..Len(stack0),
          held \in (IF opcode.op \in {"GetUpvalue", "SetUpvalue"} THEN 0..MaxIndex ELSE {0}) :
          /\ prog = 0
          /\ runs = 1
          /\ Unread
          /\ functions = OpFunctions(opcode)
          /\ ip = 0
          /\ base = base0
          /\ stack = stack0
          /\ globals = ("a" :> ValueNumber(1))
          /\ closures = << [function |-> 1, upvalues |-> <<ValueNumber(1)>>],
                           [function |-> 2, upvalues |-> [i \in 1..held |-> ValueNumber(i)]] >>
          /\ classes = <<[name |-> "K", methods |-> ("b" :> 1)]>>
          /\ instances = <<[class |-> 1, fields |-> ("a" :> ValueNumber(1))]>>
          /\ callstack = <<ScriptActivation(2, OpFunctions(opcode)[2].bin, stack0)>>
          /\ status = "running"
          /\ error = NoError
          /\ output = << >>

SpecOp == InitOp /\ [][Next]_vars

(***************************************************************************)
(* main.rs: repl and run.  One VM lives through the session; each source   *)
(* is parsed, compiled, and executed after vm.reset().  The parser is not  *)
(* part of the model: a source is given by what the loop of parse_program  *)
(* collects from it, the declarations parsed and the ParsingErrors.        *)
(***************************************************************************)
\* most sources of a session
MaxRuns == 3

Source(program, errors) == [program |-> program, errors |-> errors]

\* var x = 1;
DefineLine == <<VarDecl("x", Num(1))>>

\* print x;
PrintGlobalLine == <<PrintStmt(Var("x"))>>

\* { var a = 1; var a = 2; }  print "unreached";
RedeclareLine ==
    << Block(<<VarDecl("a", Num(1)), VarDecl("a", Num(2))>>), PrintStmt(Str("unreached")) >>

\* print "parsed"; print ;
SyntaxErrorLine ==
    Source(<<PrintStmt(Str("parsed"))>>, <<Error("Expected primary expression.", Span(21, 22))>>)

Lines ==
    << Source(DefineLine, << >>), Source(PrintGlobalLine, << >>),
       Source(ErrorInCallProgram, << >>), Source(CallProgram(0), << >>),
       Source(RedeclareLine, << >>), SyntaxErrorLine,
       Source(ClosureSetCapturedProgram, << >>), Source(ClassProgram, << >>),
       Source(InheritProgram, << >>), Source(StatementsProgram, << >>) >>

\* Parser::parse_program, its last statement: Ok(program) only without errors
parse_program(source) ==
    IF source.errors = << >> THEN [ok |-> TRUE, ast |-> source.program, errors |-> << >>]
    ELSE [ok |-> FALSE, ast |-> << >>, errors |-> source.errors]

\* repl reads a source and run parses it; the errors are reported to stderr
Parse ==
    /\ status \in {"idle", "ok", "failed", "rejected"}
    /\ runs < MaxRuns
    /\ \E l \in 1..Len(Lines) :
          /\ prog' = l
          /\ runs' = runs + 1
          /\ IF parse_program(Lines[l]).ok
             THEN status' = "parsed" /\ error' = NoError
             ELSE status' = "rejected" /\ error' = parse_program(Lines[l]).errors[1]
    /\ UNCHANGED <<frontend, functions, ip, base, stack, globals, closures, classes,
                   instances, callstack, output>>

\* a run that goes on to execute whatever compile returned
Load_IgnoringError(compiled) ==
    /\ status' = "compiled"
    /\ error' = NoError
    /\ functions' = compiled.functions
    /\ classes' = compiled.classes
    /\ closures' = Append(closures, [function |-> Len(compiled.functions),
                                     upvalues |-> << >>])
    /\ UNCHANGED <<frontend, prog, runs, ip, base, stack, globals, instances, callstack, output>>

\* run, after compile returned `compiled`: the script closure is kept, or the
\* error is reported to stderr
Load(compiled) ==
    /\ IF compiled.err # NoError
       THEN /\ status' = "rejected"
            /\ error' = compiled.err
            /\ UNCHANGED <<functions, closures, classes>>
       ELSE /\ status' = "compiled"
            /\ error' = NoError
            /\ functions' = compiled.functions
            /\ classes' = compiled.classes
            /\ closures' = Append(closures, [function |-> Len(compiled.functions),
                                             upvalues |-> << >>])
    /\ UNCHANGED <<frontend, prog, runs, ip, base, stack, globals, instances, callstack, output>>

\* run: compiler::compile(ast)
Compile ==
    /\ status = "parsed"
    /\ Load(compile_in(functions, classes, parse_program(Lines[prog]).ast))

\* a reset that builds the VM anew, as VM::new does: the globals are lost
Reset_Forgetting ==
    /\ status = "compiled"
    /\ ip' = 0
    /\ base' = 0
    /\ stack' = << >>
    /\ globals' = EmptyMap
    /\ status' = "reset"
    /\ UNCHANGED <<frontend, prog, runs, functions, closures, classes, instances, callstack, error,
                   output>>

\* VM::reset
Reset ==
    /\ status = "compiled"
    /\ ip' = 0
    /\ base' = 0
    /\ stack' = << >>
    /\ status' = "reset"
    /\ UNCHANGED <<frontend, prog, runs, functions, globals, closures, classes, instances, callstack,
                   error, output>>

\* run: the call of the VM on the script closure
Interpret ==
    /\ status = "reset"
    /\ status' = "running"
    /\ callstack' = <<ScriptActivation(Len(closures),
                                       functions[closures[Len(closures)].function].bin, stack)>>
    /\ UNCHANGED <<frontend, prog, runs, functions, ip, base, stack, globals, closures, classes,
                   instances, error, output>>

\* VM::new() in repl
InitRepl ==
    /\ prog = 0
    /\ runs = 0
    /\ Unread
    /\ functions = << >>
    /\ ip = 0
    /\ base = 0
    /\ stack = << >>
    /\ globals = EmptyMap
    /\ closures = << >>
    /\ classes = << >>
    /\ instances = << >>
    /\ callstack = << >>
    /\ status = "idle"
    /\ error = NoError
    /\ output = << >>

NextRepl ==
    \/ Parse
    \/ Compile
    \/ Reset
    \/ Interpret
    \/ Next

SpecRepl == InitRepl /\ [][NextRepl]_vars

(***************************************************************************)
(* compile on sources about as long as the length limit allows.  A source  *)
(* is a run of print statements whose code is 0 to 65532 instructions      *)
(* long, followed by a statement that takes the length over the limit from *)
(* the longest run; or a function with that body.                          *)
(***************************************************************************)
\* print 1; 2^(k+1) - 2 times: 2^(k+2) - 4 instructions
Straight(k) == [i \in 1..(2^(k + 1) - 2) |-> PrintStmt(Num(1))]

\* the longest run within the limit
LimitDepth == CHOOSE k \in 1..20 : 2^(k + 2) - 4 <= U16Max /\ 2^(k + 3) - 4 > U16Max

\* print 1; print 1;   |   1 and 1;   |   if (nil) {}
Tails ==
    << <<PrintStmt(Num(1)), PrintStmt(Num(1))>>,
       <<ExprStmt(And(Num(1), Num(1)))>>,
       <<If(Nil, Block(<< >>), Absent)>> >>

\* the p-th long source: run k, then tail j; for j beyond Tails, the function
\* fun f() { run k; print 1; print 1; }
LongProgram(p) ==
    LET k == (p - 1) \div (Len(Tails) + 1)
        j == ((p - 1) % (Len(Tails) + 1)) + 1
    IN  IF j <= Len(Tails) THEN Straight(k) \o Tails[j]
        ELSE <<Fun("f", << >>, Straight(k) \o Tails[1])>>

\* compiler::compile(ast), the ast being that of the p-th long source
CompiledLong(p) == compile_in(<< >>, << >>, LongProgram(p))

\* run, after compile returned `compiled`.  The state keeps whether it was Ok
\* or Err and the error; the Executable of a long source is not kept: the
\* properties compute it again.
Outcome(compiled) ==
    /\ status' = IF Failed(compiled) THEN "rejected" ELSE "compiled"
    /\ error' = compiled.err
    /\ UNCHANGED <<frontend, prog, runs, functions, ip, base, stack, globals, closures, classes,
                   instances, callstack, output>>

\* run: compiler::compile(ast), the source being the prog-th long source
CompileLong ==
    /\ status = "parsed"
    /\ Outcome(CompiledLong(prog))

\* a fresh VM, a long source parsed
InitLimit ==
    /\ prog \in 1..((LimitDepth + 1) * (Len(Tails) + 1))
    /\ runs = 1
    /\ Unread
    /\ functions = << >>
    /\ ip = 0
    /\ base = 0
    /\ stack = << >>
    /\ globals = EmptyMap
    /\ closures = << >>
    /\ classes = << >>
    /\ instances = << >>
    /\ callstack = << >>
    /\ status = "parsed"
    /\ error = NoError
    /\ output = << >>

SpecLimit == InitLimit /\ [][CompileLong]_vars

(***************************************************************************)
(* compile on sources that declare local variables: two declarations in a  *)
(* block, the second in the block itself or in a block of its own, and     *)
(* functions and methods with up to MaxArgs parameters named a or b.       *)
(***************************************************************************)
\* var name;   |   fun name() {}   |   class name {}
Declaration(kind, name) ==
    CASE kind = "var" -> VarDecl(name, Nil)
      [] kind = "fun" -> Fun(name, << >>, << >>)
      [] kind = "class" -> Class(name, << >>, "")

\* { <first> a; <second> name; }   or   { <first> a; { <second> name; } }
BlockPrograms ==
    { << Block(<< Declaration(first, "a"),
                  IF inner THEN Block(<<Declaration(second, name)>>)
                  ELSE Declaration(second, name) >>) >> :
        first \in {"var", "fun", "class"}, second \in {"var", "fun", "class"},
        name \in {"a", "b"}, inner \in BOOLEAN }

ParameterLists == UNION {[1..n -> {Param("a"), Param("b")}] : n \in 0..MaxArgs}

\* fun f(<parameters>) { <body> }   and   class K { m(<parameters>) { <body> } }
ParameterPrograms ==
    UNION { { <<Fun("f", parameters, body)>>,
              <<Class("K", <<Fun("m", parameters, body)>>, "")>> } :
            parameters \in ParameterLists, body \in {<< >>, <<VarDecl("a", Nil)>>} }

\* the places of a statement: at the top of the script, in a function, in a
\* method of a class without and with a superclass, in a function within a
\* method, and in a method of a class without superclass that is declared within
\* a method of a class with one
Places == {"script", "function", "method", "submethod", "function in method", "nested"}

\* print this;   this = 1;   this.x = 1;   super.x;
Uses == {"this", "this =", "this.x =", "super.x"}

UseStmt(use) ==
    CASE use = "this" -> PrintStmt(Var("this"))
      [] use = "this =" -> ExprStmt(Assign(Var("this"), Num(1)))
      [] use = "this.x =" -> ExprStmt(Assign(Field(Var("this"), "x"), Num(1)))
      [] use = "super.x" -> ExprStmt(AstSuperAccess(Span(0, 7), "x"))

ReceiverProgram(place, use) ==
    CASE place = "script" -> <<UseStmt(use)>>
      [] place = "function" -> <<Fun("f", << >>, <<UseStmt(use)>>)>>
      [] place = "method" -> <<Class("K", <<Fun("m", << >>, <<UseStmt(use)>>)>>, "")>>
      [] place = "submethod" ->
           << Class("A", << >>, ""),
              Class("B", <<Fun("m", << >>, <<UseStmt(use)>>)>>, "A") >>
      [] place = "function in method" ->
           <<Class("K", <<Fun("m", << >>, <<Fun("f", << >>, <<UseStmt(use)>>)>>)>>, "")>>
      [] place = "nested" ->
           << Class("A", << >>, ""),
              Class("B", <<Fun("m", << >>,
                               <<Class("C", <<Fun("n", << >>, <<UseStmt(use)>>)>>, "")>>)>>,
                    "A") >>

ReceiverPrograms == {ReceiverProgram(place, use) : place \in Places, use \in Uses}

ScopePrograms == BlockPrograms \cup ParameterPrograms \cup ReceiverPrograms

\* run: compiler::compile(ast), the source being prog
CompileScoped ==
    /\ status = "parsed"
    /\ Load(compile_in(functions, classes, prog))

\* a fresh VM, a source parsed
InitScope ==
    /\ prog \in ScopePrograms
    /\ runs = 1
    /\ Unread
    /\ functions = << >>
    /\ ip = 0
    /\ base = 0
    /\ stack = << >>
    /\ globals = EmptyMap
    /\ closures = << >>
    /\ classes = << >>
    /\ instances = << >>
    /\ callstack = << >>
    /\ status = "parsed"
    /\ error = NoError
    /\ output = << >>

SpecScope == InitScope /\ [][CompileScoped]_vars

(***************************************************************************)
(* The opcodes that look at what a value is (the binary operations,        *)
(* Negate, Not, Bool, JumpIfTrue, JumpIfFalse), each met with any two      *)
(* values on the stack.                                                    *)
(* The heap is that of SpecOp with two instances of K: the first has been  *)
(* given itself as a field (o.me = o), the second has the field a.         *)
(***************************************************************************)
NaN == div(ValueNumber(0), ValueNumber(0))

Values ==
    {ValueNil, ValueBool(TRUE), ValueBool(FALSE), ValueNumber(0), ValueNumber(1), NaN,
     ValueString(""), ValueString("a"), ValueFunction(1), ValueClosure(1), ValueClass(1),
     ValueInstance(1), ValueInstance(2)}

ValueOpcodes ==
    {Op0(name) : name \in BinaryOps \cup {"Negate", "Not", "Bool"}}
    \cup {Op(name, a) : name \in {"JumpIfTrue", "JumpIfFalse"}, a \in 0..MaxIndex}

InitValue ==
    \E opcode \in ValueOpcodes, left \in Values, right \in Values :
       /\ prog = 0
       /\ runs = 1
       /\ Unread
       /\ functions = OpFunctions(opcode)
       /\ ip = 0
       /\ base = 0
       /\ stack = <<left, right>>
       /\ globals = EmptyMap
       /\ closures = << [function |-> 1, upvalues |-> <<ValueNumber(1)>>],
                        [function |-> 2, upvalues |-> << >>] >>
       /\ classes = <<[name |-> "K", methods |-> ("b" :> 1)]>>
       /\ instances = << [class |-> 1, fields |-> ("me" :> ValueInstance(1))],
                         [class |-> 1, fields |-> ("a" :> ValueNumber(1))] >>
       /\ callstack = <<ScriptActivation(2, OpFunctions(opcode)[2].bin, <<left, right>>)>>
       /\ status = "running"
       /\ error = NoError
       /\ output = << >>

NextValue ==
    \/ OpNegate
    \/ OpNot
    \/ OpBool
    \/ OpJumpIfTrue
    \/ OpJumpIfFalse
    \/ OpBinary
    \/ LoopExit
    \/ Finish

SpecValue == InitValue /\ [][NextValue]_vars

(***************************************************************************)
(* Properties.                                                             *)
(***************************************************************************)

\* C1: when the call of a closure of arity n with n arguments returns, the stack is
\* one element deeper than before the invocation expression began (the callable's
\* slot is base - 1 of the callee) and the return value sits in the callable's slot.
C1_InvocationLeavesOneValue ==
    [][(/\ status = "returned"
        /\ Len(callstack) > 1
        /\ Activation.kind = "closure"
        /\ functions[CurrentClosure.function].arity = Activation.arg_count
        /\ status' = "running")
       => (Len(stack') = base /\ At(stack', base - 1) = At(stack, base))]_vars

\* C2: the invocation of a class with n arguments replaces the callable slot, the
\* this-slot and the n arguments by the new instance alone, whether the class has
\* no init (the Invoke step itself) or has one (the return from init).
C2_InstantiationLeavesInstance ==
    [][/\ (/\ Fetch("Invoke")
           /\ Len(stack) > Instruction.a + 1
           /\ peek(Instruction.a + 1).t = "Class"
           /\ Len(callstack') = Len(callstack)
           /\ status' = "running")
          => stack' = Append(DropLast(stack, Instruction.a + 2),
                             ValueInstance(Len(instances')))
       /\ (/\ status = "returned"
           /\ Len(callstack) > 1
           /\ Activation.kind = "init"
           /\ status' = "running")
          => stack' = Append(SubSeq(stack, 1, base - 1), Activation.instance)]_vars

\* C3: closures capture by reference: a captured local assigned by the enclosing
\* function after the closure was made (CaptureReadProgram), or through another
\* closure over the same variable (CaptureSharedProgram), is read as assigned through
\* the closure, and an assignment through a closure is seen by the enclosing function
\* (CaptureWriteProgram): each of the three programs prints 2.
C3_CaptureByReference ==
    (/\ status = "ok"
     /\ prog \in 1..Len(Programs)
     /\ Programs[prog] \in {CaptureReadProgram, CaptureSharedProgram, CaptureWriteProgram})
    => output = <<"2">>

\* C4: whenever GetLocal(k) is about to execute for a variable of the running
\* activation, stack[base + k] holds the value most recently bound to the variable.
C4_SlotIsRuntimePosition ==
    (/\ status = "running"
     /\ ip < len(Bin)
     /\ Instruction.op = "GetLocal"
     /\ Instruction.a \in DOMAIN Activation.shadow)
    => /\ base + Instruction.a < Len(stack)
       /\ At(stack, base + Instruction.a) = Activation.shadow[Instruction.a]

\* C5: SetLocal(k) copies the top of the stack into stack[base + k] and changes
\* nothing else: same depth, every other slot as it was.
C5_SetLocalWritesSlot ==
    [][(Fetch("SetLocal") /\ stack # << >> /\ base + Instruction.a < Len(stack))
       => (status' = "running" /\ stack' = Put(stack, base + Instruction.a, peek(0)))]_vars

\* C6: when the code of a statement that declares no local variable has been
\* executed to its end, the stack is as deep as when the statement was entered.
C6_StatementsAreBalanced ==
    status = "running"
    => \A j \in DOMAIN Activation.entry :
          Bin.stmts[j].end = ip => Len(stack) = Activation.entry[j]

\* C7: SetUpvalue(k) overwrites entry k of the running closure's upvalue list and
\* nothing else: the list keeps its length, the other entries and the stack stay.
C7_SetUpvalueOverwrites ==
    [][(Fetch("SetUpvalue") /\ stack # << >> /\ Instruction.a < Len(CurrentClosure.upvalues))
       => /\ status' = "running"
          /\ stack' = stack
          /\ closures' = [closures EXCEPT ![Activation.closure].upvalues =
                            Put(@, Instruction.a, peek(0))]]_vars

\* C8: once a RuntimeError is raised nothing more is executed or printed: from a
\* state in which an Err is being returned every step leaves the VM, the heap and
\* the output as they are and keeps the error, and the outermost interpret ends
\* only as "failed", with that error.
C8_StopsAtFirstError ==
    [][/\ status \in {"error", "failed"}
          => /\ status' \in {"error", "failed"}
             /\ UNCHANGED <<ip, base, stack, globals, closures, classes, instances,
                            output, error>>
       /\ status' = "failed" => (status = "error" /\ error # NoError)
       /\ status' = "error" => error' # NoError]_vars

\* an error raised two calls deep has reached the driver, nothing printed after it
C8_Witness ==
    /\ status = "failed"
    /\ prog \in 1..Len(Programs)
    /\ Programs[prog] = ErrorInCallProgram
    /\ error.message = "Cannot negate non-numeric types"
    /\ output = <<"in g">>

\* C9: no opcode executed in any state of the VM aborts the process, and a
\* RuntimeError it returns carries the span of the instruction.
C9_NeverCrashes ==
    [][(status = "running" /\ ip < len(Bin))
       => /\ status' # "panicked"
          /\ status' = "error" => error'.span = CurrentSpan]_vars

\* C10: GetGlobal and SetGlobal on a name that is not in globals return a
\* RuntimeError and leave globals as they are; SetGlobal on a declared name stores
\* the top of the stack under the name and leaves the stack as it is.
C10_GlobalsDeclaredFirst ==
    [][/\ (/\ status = "running" /\ ip < len(Bin)
           /\ Instruction.op \in {"GetGlobal", "SetGlobal"}
           /\ Instruction.a < Len(Bin.constants)
           /\ is_string(get_constant(Bin, Instruction.a))
           /\ get_constant(Bin, Instruction.a).s \notin DOMAIN globals)
          => (status' = "error" /\ error' # NoError /\ globals' = globals)
       /\ (/\ Fetch("SetGlobal")
           /\ Instruction.a < Len(Bin.constants)
           /\ is_string(get_constant(Bin, Instruction.a))
           /\ get_constant(Bin, Instruction.a).s \in DOMAIN globals
           /\ stack # << >>)
          => /\ status' = "running"
             /\ stack' = stack
             /\ globals' = [globals EXCEPT ![get_constant(Bin, Instruction.a).s] = peek(0)]]_vars

\* SetGlobal(b) has been refused, b being undeclared: globals still hold a alone
C10_Witness ==
    /\ status = "failed"
    /\ error.message = "Assigned to set undeclared global b"
    /\ DOMAIN globals = {"a"}
    /\ Len(stack) = 1

\* C11: reset sets ip and base to 0 and empties the stack and leaves globals as
\* they were, whatever the interpret calls before it did; between the end of one
\* interpret and the start of the next no global changes, and the next interpret
\* starts at instruction 0 with an empty stack.
C11_ResetKeepsGlobals ==
    [][/\ (status = "compiled" /\ status' = "reset")
          => (ip' = 0 /\ base' = 0 /\ stack' = << >> /\ globals' = globals)
       /\ (status = "reset" /\ status' = "running")
          => (ip' = 0 /\ base' = 0 /\ stack' = << >> /\ globals' = globals)
       /\ status \in {"ok", "failed", "rejected", "parsed", "compiled"}
          => globals' = globals]_vars

\* x was defined, a later source failed inside a nested call, and the source after
\* it has printed x
C11_Witness ==
    /\ runs = 3
    /\ status = "ok"
    /\ Lines[prog].program = PrintGlobalLine
    /\ output = <<"in g", "1">>
    /\ DOMAIN globals = {"x", "f", "g"}

\* C12: the driver parses, then compiles, then executes, and stops at the first
\* stage that reports an error: a source with a ParsingError is rejected with
\* nothing compiled or executed, a source with a CompilerError is rejected with no
\* opcode executed and nothing written; code is compiled only after a parse without
\* error, execution starts only after a compile without error, and output is
\* written only by the execution.
C12_StagesInOrder ==
    [][/\ (runs' = runs + 1 /\ Lines[prog'].errors # << >>)
          => /\ status' = "rejected"
             /\ UNCHANGED <<functions, ip, base, stack, globals, closures, classes,
                            instances, output>>
       /\ (/\ status = "parsed"
           /\ compile_in(functions, classes, Lines[prog].program).err # NoError)
          => /\ status' = "rejected"
             /\ UNCHANGED <<functions, ip, base, stack, globals, closures, classes,
                            instances, output>>
       /\ status = "rejected" => runs' = runs + 1
       /\ status' = "parsed" => (runs' = runs + 1 /\ Lines[prog'].errors = << >>)
       /\ status' = "compiled" => status = "parsed"
       /\ status' = "reset" => status = "compiled"
       /\ (status' = "running" /\ status \notin {"running", "returned"}) => status = "reset"
       /\ output' # output => status = "running"]_vars

\* the first source of a session had a CompilerError: nothing was loaded, run or
\* printed
C12_Witness ==
    /\ runs = 1
    /\ status = "rejected"
    /\ Lines[prog].program = RedeclareLine
    /\ error.message = "Redeclaration of local variable a"
    /\ functions = << >>
    /\ output = << >>

\* C13: whatever compile returns without CompilerError is within the length limit:
\* the executable of the script and of every function is at most 65 535
\* instructions long.
C13_LengthWithinLimit ==
    status = "compiled"
    => LET compiled == CompiledLong(prog).functions
       IN  \A i \in 1..Len(compiled) : len(compiled[i].bin) <= U16Max

\* the names a sequence of declarations adds to the scope it is compiled in
DeclaredNames(declarations) ==
    LET declaring == SelectSeq(declarations,
                               LAMBDA d : d.k \in {"VarDeclaration", "FunDeclaration",
                                                   "ClassDeclaration"})
    IN  [i \in 1..Len(declaring) |-> declaring[i].name]

Repeats(names) == \E i, j \in 1..Len(names) : i < j /\ names[i] = names[j]

\* the node asks for two locals of one name in one scope: in a block, or among the
\* parameters of a function or method
RECURSIVE Redeclares(_)
Redeclares(node) ==
    CASE node.k = "Block" ->
           \/ Repeats(DeclaredNames(node.declarations))
           \/ \E i \in 1..Len(node.declarations) : Redeclares(node.declarations[i])
      [] node.k = "FunDeclaration" ->
           \/ Repeats([i \in 1..Len(node.parameters) |-> node.parameters[i].text])
           \/ Redeclares(node.body)
      [] node.k = "ClassDeclaration" ->
           \E i \in 1..Len(node.methods) : Redeclares(node.methods[i])
      [] node.k = "If" -> Redeclares(node.if_block) \/ Redeclares(node.else_block)
      [] node.k \in {"While", "For"} -> Redeclares(node.block)
      [] OTHER -> FALSE

\* C14: no scope gets two locals of one name, however the locals are added (var,
\* fun and class declarations, parameters of functions and methods): compile
\* returns a CompilerError for a source that asks for it.
C14_LocalsUniqueInScope ==
    status = "compiled" => ~(\E i \in 1..Len(prog) : Redeclares(prog[i]))

\* only nil and false are falsy
Falsy(v) == v = ValueNil \/ v = ValueBool(FALSE)

\* C15: every number, every string and every object is truthy: Not answers true
\* for nil and false only, Bool answers false for them only, JumpIfTrue jumps on
\* every other value and JumpIfFalse on these two alone.
C15_OnlyNilAndFalseAreFalsy ==
    [][/\ Fetch("Not") => stack' = Append(DropLast(stack, 1), ValueBool(Falsy(peek(0))))
       /\ Fetch("Bool") => stack' = Append(DropLast(stack, 1), ValueBool(~Falsy(peek(0))))
       /\ Fetch("JumpIfTrue")
          => ip' = IF Falsy(peek(0)) THEN ip + 1 ELSE Instruction.a
       /\ Fetch("JumpIfFalse")
          => ip' = IF Falsy(peek(0)) THEN Instruction.a ELSE ip + 1]_vars

\* C16: Equal on two values of different variants yields false, a Bool operand
\* included.
C16_CrossTypeEqualIsFalse ==
    [][(Fetch("Equal") /\ peek(0).t # peek(1).t)
       => (status' = "running" /\ stack' = Append(DropLast(stack, 2), ValueBool(FALSE)))]_vars

\* C17: Equal on two values that are no Bool yields true only for values of one
\* variant; when either operand is a Bool the result is whether the truthiness of
\* the other operand is that Bool; and a == b is what b == a is (the result is
\* an outcome Equal has on the operands swapped).
C17_EqualIsSymmetric ==
    [][Fetch("Equal")
       => /\ (peek(0).t # "Bool" /\ peek(1).t # "Bool" /\ peek(0).t # peek(1).t)
             => stack' = Append(DropLast(stack, 2), ValueBool(FALSE))
          /\ (peek(1).t = "Bool" /\ peek(0).t # "Bool")
             => stack' = Append(DropLast(stack, 2),
                                ValueBool(is_truthy(peek(0)) = (peek(1) = ValueBool(TRUE))))
          /\ (peek(0).t = "Bool" /\ peek(1).t # "Bool")
             => stack' = Append(DropLast(stack, 2),
                                ValueBool(is_truthy(peek(1)) = (peek(0) = ValueBool(TRUE))))
          /\ status' = "running"
             => stack'[Len(stack')]
                  \in {ValueBool(o = "true") :
                         o \in value_eq(Heap, Locked, {}, peek(0), peek(1))}]_vars

\* C18: v == v completes and yields true for every value v that is no Bool.
C18_EqualIsReflexive ==
    [][(Fetch("Equal") /\ peek(0) = peek(1) /\ peek(0).t # "Bool")
       => (status' = "running" /\ stack' = Append(DropLast(stack, 2), ValueBool(TRUE)))]_vars

\* the short-circuit program under execution: its place among them, its
\* operator, and the value its left operand a() returns
ShortCircuitIndex == prog - (Len(Programs) - Len(ShortCircuitPrograms))

ShortCircuitOperator == IF ShortCircuitIndex <= Len(Operands) THEN "and" ELSE "or"

ShortCircuitOperand == Operands[((ShortCircuitIndex - 1) % Len(Operands)) + 1].value

\* C19: `print a() and b();` runs a once, and then b once exactly when what a
\* returned is truthy (anything but nil and false); `print a() or b();` runs a
\* once, and then b once exactly when what a returned is falsy.  What a and b
\* print ahead of the printed value tells which of them ran, and in what order.
C19_RightOperandIffNeeded ==
    (ShortCircuitIndex >= 1 /\ status = "ok")
    => /\ Len(output) >= 1
       /\ DropLast(output, 1)
            = IF (ShortCircuitOperator = "and") = ~Falsy(ShortCircuitOperand)
              THEN <<"a", "b">>
              ELSE <<"a">>

\* C20: the value `print a() and b();` and `print a() or b();` print is that of
\* the last operand that ran, unchanged: what b returned ("x") when b ran, and
\* what a returned when it did not.
C20_ValueIsLastOperand ==
    (ShortCircuitIndex >= 1 /\ status = "ok")
    => /\ Len(output) >= 1
       /\ output[Len(output)]
            = IF "b" \in Range(DropLast(output, 1))
              THEN "x"
              ELSE Display(Heap, ShortCircuitOperand)

\* the operations binary_op checks for two Numbers
NumericOps ==
    {"Subtract", "Multiply", "Divide", "Less", "LessEqual", "Greater", "GreaterEqual"}

\* the operands an operation is defined on
WellTyped(op, left, right) ==
    \/ left.t = "Number" /\ right.t = "Number"
    \/ op = "Add" /\ left.t = "String" /\ right.t = "String"

\* C22: Subtract, Multiply, Divide, Less, LessEqual, Greater and GreaterEqual on
\* two values that are not both Numbers, Add on two values that are neither both
\* Numbers nor both Strings, and Negate on a value that is no Number return a
\* RuntimeError whose span is that of the instruction, and push no result; on
\* operands of the right types they go on with the result in place of the operands.
C22_WronglyTypedOperandsRaise ==
    [][/\ (status = "running" /\ ip < len(Bin) /\ Instruction.op \in NumericOps \cup {"Add"})
          => IF WellTyped(Instruction.op, peek(1), peek(0))
             THEN status' = "running" /\ Len(stack') = Len(stack) - 1
             ELSE /\ status' = "error"
                  /\ error'.message # ""
                  /\ error'.span = CurrentSpan
                  /\ stack' = DropLast(stack, 2)
       /\ Fetch("Negate")
          => IF peek(0).t = "Number"
             THEN status' = "running" /\ stack' = Append(DropLast(stack, 1), neg(peek(0)))
             ELSE /\ status' = "error"
                  /\ error'.message # ""
                  /\ error'.span = CurrentSpan
                  /\ stack' = DropLast(stack, 1)]_vars

\* "a" + 1 has been rejected
C22_Witness ==
    /\ status = "error"
    /\ error = Error("Cannot apply '+' to String and Non-String", Span(1, 2))
    /\ stack = << >>

\* ReadField or SetField is about to act on an instance, under a field name
OnInstance(opcode, depth) ==
    /\ Fetch(opcode)
    /\ Instruction.a < Len(Bin.constants)
    /\ is_string(get_constant(Bin, Instruction.a))
    /\ Len(stack) > depth
    /\ peek(depth).t = "Instance"

\* C23: ReadField(name) on an instance whose class has a method of that name
\* yields the method bound to the instance, whether or not the instance has a
\* field of that name; it yields the field when the class has no such method and
\* the instance has the field, and returns a RuntimeError when it has neither.
C23_MethodsBeforeFields ==
    [][OnInstance("ReadField", 0)
       => LET name == get_constant(Bin, Instruction.a).s
              instance == instances[peek(0).n]
              methods == classes[instance.class].methods
              rest == DropLast(stack, 1)
          IN  IF name \in DOMAIN methods
              THEN /\ status' = "running"
                   /\ stack' = Append(rest, ValueBoundMethod(peek(0).n, methods[name]))
              ELSE IF name \in DOMAIN instance.fields
              THEN status' = "running" /\ stack' = Append(rest, instance.fields[name])
              ELSE status' = "error" /\ error'.span = CurrentSpan]_vars

\* C24: SetField(f) with an instance i under a value v on the stack stores v in
\* the field f of i, creating it if need be, takes both from the stack and leaves
\* v; the other fields of i, the fields of every other instance and every method
\* table stay as they were.
C24_SetFieldChangesOneField ==
    [][OnInstance("SetField", 1)
       => LET name == get_constant(Bin, Instruction.a).s
              target == peek(1).n
          IN  /\ status' = "running"
              /\ stack' = Append(DropLast(stack, 2), peek(0))
              /\ classes' = classes
              /\ Len(instances') = Len(instances)
              /\ \A i \in 1..Len(instances) :
                    /\ instances'[i].class = instances[i].class
                    /\ DOMAIN instances'[i].fields
                          = DOMAIN instances[i].fields \cup (IF i = target THEN {name} ELSE {})
                    /\ \A f \in DOMAIN instances'[i].fields :
                          instances'[i].fields[f]
                             = IF i = target /\ f = name THEN peek(0)
                               ELSE instances[i].fields[f]]_vars

\* o.a = 3 has overwritten the field a of o and left the field a of p, an
\* instance of the same class, at 2
C24_Witness ==
    /\ Programs[prog] = FieldProgram
    /\ Len(instances) = 2
    /\ instances[1].class = instances[2].class
    /\ "a" \in DOMAIN instances[1].fields /\ instances[1].fields["a"] = ValueNumber(3)
    /\ "a" \in DOMAIN instances[2].fields /\ instances[2].fields["a"] = ValueNumber(2)
    /\ stack # << >> /\ stack[Len(stack)] = ValueNumber(3)

\* C25: a step of Inherit that goes on gives the class on top of the stack every
\* method the superclass under it has, bound to the closure of the superclass,
\* and leaves the method table of the superclass and the stack as they were; a
\* step of Method that follows binds the name to the closure of the subclass, so
\* that after class B < A the methods B declares are B's own and every other
\* method of A is A's.
C25_InheritCopiesMethods ==
    /\ [][(Fetch("Inherit") /\ status' = "running")
          => LET A == peek(1).n
                 B == peek(0).n
             IN  /\ \A name \in DOMAIN classes[A].methods :
                       /\ name \in DOMAIN classes'[B].methods
                       /\ classes'[B].methods[name] = classes[A].methods[name]
                 /\ A # B => classes'[A] = classes[A]
                 /\ stack' = stack]_vars
    /\ [][(Fetch("Method") /\ status' = "running")
          => LET B == peek(1).n
                 name == ClosureName(Heap, peek(0).n)
             IN  /\ classes'[B].methods[name] = peek(0).n
                 /\ \A other \in DOMAIN classes[B].methods \ {name} :
                       classes'[B].methods[other] = classes[B].methods[other]]_vars
    /\ [](Programs[prog] = InheritOverrideProgram /\ status = "ok"
          => /\ DOMAIN classes[1].methods = {"m1", "m2"}
             /\ DOMAIN classes[2].methods = {"m1", "m2", "m3"}
             /\ classes[2].methods["m1"] = classes[1].methods["m1"]
             /\ classes[2].methods["m2"] # classes[1].methods["m2"]
             /\ output = <<"A1", "B2", "B3">>)

\* class B < A has been executed and the methods of an instance of B have run
C25_Witness ==
    /\ Programs[prog] = InheritOverrideProgram
    /\ status = "ok"
    /\ DOMAIN classes[2].methods = {"m1", "m2", "m3"}
    /\ output = <<"A1", "B2", "B3">>

\* C30: the compiler rejects a use of this that is not within a method, and a
\* super.name that is not within a method or is within a method of a class
\* without superclass; it accepts super.name in a method of a class with a
\* superclass.
C30_ReceiverOnlyInMethods ==
    \A place \in Places, use \in Uses :
        (prog = ReceiverProgram(place, use) /\ status # "parsed")
        => /\ (use # "super.x" /\ place \in {"script", "function"})
              => status = "rejected" /\ error # NoError
           /\ (use = "super.x" /\ place \in {"script", "function", "method", "nested"})
              => status = "rejected" /\ error # NoError
           /\ (use = "super.x" /\ place = "submethod") => status = "compiled"

\* the outcomes the comparison about to be made can have, one for each order in
\* which the field and method maps may be iterated
EqualOutcomes == value_eq(Heap, Locked, {}, peek(1), peek(0))

\* C29: what a step of the VM does is independent of the iteration order of the
\* method and field maps, so that two runs of a source write the same output and
\* end in the same result: a comparison of two values has one outcome whatever
\* the order in which the entries of the maps are compared.
C29_OrderIndependent ==
    (status = "running" /\ ip < len(Bin) /\ Instruction.op \in {"Equal", "NotEqual"}
       /\ Len(stack) >= 2)
    => \A first, second \in EqualOutcomes : first = second

(***************************************************************************)
(* The front end on its own: no source is compiled or run.                 *)
(***************************************************************************)
backend == <<prog, runs, functions, ip, base, stack, globals, closures, classes,
             instances, callstack, error, output>>

NoRun ==
    /\ runs = 0
    /\ functions = << >>
    /\ ip = 0
    /\ base = 0
    /\ stack = << >>
    /\ globals = EmptyMap
    /\ closures = << >>
    /\ classes = << >>
    /\ instances = << >>
    /\ callstack = << >>
    /\ error = NoError
    /\ output = << >>

(***************************************************************************)
(* token.rs: Span::merge, called on one up to MaxMerged spans.             *)
(***************************************************************************)
\* greatest offset of a span
MaxOffset == 3

\* most spans merged at once
MaxMerged == 2

SomeSpans == {Span(start, end) : start \in 0..MaxOffset, end \in 0..MaxOffset}

InitMerge ==
    /\ NoRun
    /\ prog = 0
    /\ scanner = Scanner_new("")
    /\ token = NoToken
    /\ parsed = [ok |-> TRUE, ast |-> << >>, errors |-> << >>]
    /\ merging \in UNION {[1..n -> {span \in SomeSpans : span[1] <= span[2]}] : n \in 1..MaxMerged}
    /\ merged = Span(0, 0)
    /\ parser = NoParser
    /\ executable = Executable_new("")
    /\ status = "called"

\* Span::merge(spans)
Merge ==
    /\ status = "called"
    /\ merged' = merge(merging)
    /\ status' = "returned"
    /\ UNCHANGED <<scanner, token, parsed, merging, parser, executable, backend>>

SpecMerge == InitMerge /\ [][Merge]_vars

\* C28: Span::merge of one or more spans returns the span from the least of
\* their starts to the greatest of their ends; of a single span, that span.
C28_MergeCovers ==
    status = "returned"
    => /\ \E i \in 1..Len(merging) : merged[1] = merging[i][1]
       /\ \A i \in 1..Len(merging) : merged[1] <= merging[i][1]
       /\ \E i \in 1..Len(merging) : merged[2] = merging[i][2]
       /\ \A i \in 1..Len(merging) : merged[2] >= merging[i][2]
       /\ Len(merging) = 1 => merged = merging[1]

(***************************************************************************)
(* scanner.rs: a caller that calls Scanner::next again and again, as the   *)
(* parser does.  status is "new" after Scanner::new, "next" in the loop of *)
(* consume_whitespace, "comment" in its loop over a comment, "returned"    *)
(* when next has returned a token, and "panicked" when the index has       *)
(* overflowed in a build that checks the arithmetic.                       *)
(***************************************************************************)
ScanSources ==
    { "", "1", "print 1;", "// c\n1", "// c", "1 // c", "\"ab\"", "\"ab", "\"", "print \"",
      "x = 12.5;", "var a;\n// end\n", " \t\r\n", "@", "!= ! == = >= > <= <",
      "{}(),.-+/*;", "a and b or c", "class B < A { }", "this.x = super.y;",
      "if (a) nil; else false;", "for (;;) while (true) fun", "return orchid_1;" }

InitScan ==
    /\ NoRun
    /\ prog = 0
    /\ \E source \in ScanSources : scanner = Scanner_new(source)
    /\ token = NoToken
    /\ parsed = [ok |-> TRUE, ast |-> << >>, errors |-> << >>]
    /\ merging = << >>
    /\ merged = Span(0, 0)
    /\ parser = NoParser
    /\ executable = Executable_new("")
    /\ status = "new"

\* the caller calls Scanner::next
CallNext ==
    /\ status \in {"new", "returned"}
    /\ status' = "next"
    /\ UNCHANGED <<scanner, token, parsed, merging, merged, parser, executable, backend>>

\* one turn of the loop of consume_whitespace; when the loop returns, the rest
\* of next: the token is made and returned
ConsumeWhitespace ==
    /\ status = "next"
    /\ IF whitespace_step(scanner).at = "done"
       THEN /\ token' = scan_token(scanner).token
            /\ scanner' = scan_token(scanner).scanner
            /\ status' = "returned"
       ELSE /\ scanner' = whitespace_step(scanner).scanner
            /\ status' = whitespace_step(scanner).at
            /\ token' = token
    /\ UNCHANGED <<parsed, merging, merged, parser, executable, backend>>

\* one turn of the loop over a comment.  self.index += 1 at the greatest usize
\* panics where overflow is checked and wraps where it is not.
SkipComment ==
    /\ status = "comment"
    /\ \/ /\ scanner' = comment_step(scanner).scanner
          /\ status' = comment_step(scanner).at
       \/ /\ scanner.index = UsizeMax
          /\ status' = "panicked"
          /\ scanner' = scanner
    /\ UNCHANGED <<token, parsed, merging, merged, parser, executable, backend>>

NextScan == CallNext \/ ConsumeWhitespace \/ SkipComment

\* the caller goes on calling, and a call that can take a step takes it
SpecScan == InitScan /\ [][NextScan]_vars /\ WF_vars(NextScan)

\* C27: on every source the scanner reaches Eof: every call of next returns,
\* from some call on the token returned is Eof, and it stays Eof.
C27_ReachesEof ==
    /\ []<>(status = "returned")
    /\ <>[](token.kind = "Eof")

(***************************************************************************)
(* parser.rs: Parser::new(source).parse_program(), as run of main.rs calls *)
(* it.  prog is the source, given as the texts of its declarations, which  *)
(* a space separates.  status is "read" before the call, "parsed" when it  *)
(* has returned Ok, "rejected" when it has returned Err, and "panicked".   *)
(***************************************************************************)
\* most declarations of a source
MaxDeclarations == 2

Pieces ==
    { "print 1;", "var a = 2;", "f(1).x = 3;", "{ b; }", "fun f() { }", "a == !b;",
      "print ;", "var = 1;", "(1;", "fun f() { print ; }",
      "a and b;", "a or b;", "a or b and c;", "a and b == c;", "x = a or b;", "-(1);" }

ParseSources == UNION {[1..n -> Pieces] : n \in 1..MaxDeclarations}

\* the text of a source
RECURSIVE Text(_)
Text(pieces) ==
    IF Len(pieces) = 1 THEN pieces[1] ELSE pieces[1] \o " " \o Text(Tail(pieces))

\* Parser::new(source).parse_program(): the Result, and whether it panicked
ParseOf(source, checked) ==
    With(parse_declarations(Parser_new(source, checked), << >>, << >>), LAMBDA loop :
        [result |-> parse_program(Source(loop.program, loop.errors)), panic |-> loop.panic,
         p |-> loop.p])

InitParse ==
    /\ NoRun
    /\ \E source \in ParseSources :
          /\ prog = source
          /\ scanner = Scanner_new(Text(source))
    /\ token = NoToken
    /\ parsed = [ok |-> TRUE, ast |-> << >>, errors |-> << >>]
    /\ merging = << >>
    /\ merged = Span(0, 0)
    /\ parser = NoParser
    /\ executable = Executable_new("")
    /\ status = "read"

\* what a call of parse_program leaves
Returned(outcome) ==
    /\ scanner' = outcome.p.scanner
    /\ token' = outcome.p.current
    /\ IF outcome.panic
       THEN status' = "panicked" /\ parsed' = parsed
       ELSE /\ parsed' = outcome.result
            /\ status' = IF outcome.result.ok THEN "parsed" ELSE "rejected"
    /\ UNCHANGED <<merging, merged, parser, executable, functions, ip, base, stack, globals,
                   closures, classes,
                   instances, callstack, error, output, prog, runs>>

ParseProgram ==
    /\ status = "read"
    /\ \E checked \in BOOLEAN : Returned(ParseOf(Text(prog), checked))

SpecParse == InitParse /\ [][ParseProgram]_vars

\* the first statement of the program parsed is an expression statement of this
\* kind of expression
Expresses(kind) ==
    /\ parsed.ok
    /\ Len(parsed.ast) = 1
    /\ parsed.ast[1].k = "ExpressionStmt"
    /\ parsed.ast[1].expression.k = kind

\* C21: `a and b` and `a or b` are parsed, into an And and an Or node; `or`
\* binds looser than `and`, both looser than equality and tighter than
\* assignment.
C21_AndOrAreParsed ==
    status # "read"
    => /\ prog = <<"a and b;">> => Expresses("And")
       /\ prog = <<"a or b;">> => Expresses("Or")
       /\ prog = <<"a or b and c;">>
          => Expresses("Or") /\ parsed.ast[1].expression.right.k = "And"
       /\ prog = <<"a and b == c;">>
          => Expresses("And") /\ parsed.ast[1].expression.right.k = "Binary"
       /\ prog = <<"x = a or b;">>
          => Expresses("Assignment") /\ parsed.ast[1].expression.rvalue.k = "Or"

\* where the i-th declaration of the source begins
RECURSIVE Offset(_, _)
Offset(pieces, i) == IF i = 1 THEN 0 ELSE Offset(pieces, i - 1) + Len(pieces[i - 1]) + 1

\* the declarations of the source that do not parse
FailedDeclarations == {i \in 1..Len(prog) : ~ParseOf(prog[i], TRUE).result.ok}

\* the k-th of a set of numbers
RECURSIVE Nth(_, _)
Nth(set, k) ==
    LET least == CHOOSE n \in set : \A other \in set : n <= other
    IN  IF k = 1 THEN least ELSE Nth(set \ {least}, k - 1)

\* C26: parse_program returns the program, with every declaration of the
\* source, when none of them fails to parse; otherwise it returns no program
\* but the errors, one for each declaration that fails, in the order of the
\* source: the parser goes on after an error.
C26_OneErrorPerFailedDeclaration ==
    status \in {"parsed", "rejected"}
    => IF FailedDeclarations = {}
       THEN parsed.ok /\ Len(parsed.ast) = Len(prog) /\ parsed.errors = << >>
       ELSE /\ ~parsed.ok
            /\ parsed.ast = << >>
            /\ Len(parsed.errors) = Cardinality(FailedDeclarations)
            /\ \A k \in 1..Len(parsed.errors) :
                  LET i == Nth(FailedDeclarations, k)
                  IN  parsed.errors[k].span[1] \in
                         Offset(prog, i)..(Offset(prog, i) + Len(prog[i]))

(***************************************************************************)
(* The run of a program, as Spec, the loop of VM::interpret going on as    *)
(* long as there is an instruction to execute: the process is not stopped  *)
(* from outside.                                                           *)
(***************************************************************************)
SpecRun == Init /\ [][Next]_vars /\ WF_vars(Next)

\* the for program under execution: its place among them
ForIndex == prog - Len(CorePrograms)

IsFor == ForIndex \in 1..Len(ForPrograms)

FilePieces ==
    { "-\"x\";", " -\"x\";", "-(\"x\");", "- (\"x\");", "!-nil;", "(-nil);", "-(1);",
      "print -(1);", "print 1 + nil;", "print (1) - \"a\";", " (\"a\") < 2;", "a;", "-a;",
      "!(a);", "nil();", "(nil)(1);", "nil.x;", "(1).x;", "print -1;", "print !(nil);" }

InitFile ==
    /\ NoRun
    /\ \E piece \in FilePieces :
          /\ prog = <<piece>>
          /\ scanner = Scanner_new(piece)
    /\ token = NoToken
    /\ parsed = [ok |-> TRUE, ast |-> << >>, errors |-> << >>]
    /\ merging = << >>
    /\ merged = Span(0, 0)
    /\ parser = NoParser
    /\ executable = Executable_new("")
    /\ status = "read"

\* run: compiler::compile(ast) on what parse_program returned
CompileParsed ==
    /\ status = "parsed"
    /\ Load(compile_in(functions, classes, parsed.ast))

NextFile ==
    \/ ParseProgram
    \/ CompileParsed
    \/ Reset
    \/ Interpret
    \/ OpConstant
    \/ OpNegate
    \/ OpNot
    \/ OpPop
    \/ OpPrint
    \/ OpBinary
    \/ OpGetGlobal
    \/ OpInvoke
    \/ OpReadField
    \/ LoopExit
    \/ Finish

SpecFile == InitFile /\ [][NextFile]_vars

\* C32: the span of a RuntimeError lies within the source:
\* 0 <= start <= end <= length of the source.
C32_ErrorSpanInSource ==
    status \in {"error", "failed"}
    => /\ 0 <= error.span[1]
       /\ error.span[1] <= error.span[2]
       /\ error.span[2] <= Len(Text(prog))

\* the program of UpvaluePrograms under execution: its place among them
UpvalueIndex == prog - Len(CorePrograms) - Len(ForPrograms)

\* C33: GetUpvalue(i) in a function reads the variable its name denotes: the
\* i-th upvalue of the closure is the one made for that variable, whatever
\* the nesting and the order of the references.  The programs print the
\* variables they capture, so each prints what lexical scoping gives.
C33_UpvalueIndicesAgree ==
    (UpvalueIndex \in 1..Len(UpvaluePrograms))
    => /\ status \notin {"failed", "panicked"}
       /\ status = "ok" => output = UpvalueOutputs[UpvalueIndex]

\* opcode.rs: the opcodes whose operand is a jump target, and those whose
\* operand is the index of a constant
JumpOps == {"Jump", "JumpIfTrue", "JumpIfFalse"}

ConstantOps ==
    {"Constant", "DeclareGlobal", "GetGlobal", "SetGlobal", "Closure", "ReadField",
     "SetField", "GetSuper"}

\* the operands of the executable: every jump target is at least 0 and at
\* most `last`, every conditional jump (emitted with the placeholder 0 and
\* patched later) leads past itself, and every constant index is in the table
ValidOperands(bin, last) ==
    \A i \in 1..Len(bin.code) :
        /\ bin.code[i].op \in JumpOps => bin.code[i].a \in 0..last
        /\ bin.code[i].op \in {"JumpIfTrue", "JumpIfFalse"} => bin.code[i].a > i - 1
        /\ bin.code[i].op \in ConstantOps => bin.code[i].a \in 0..(Len(bin.constants) - 1)

SyncPieces ==
    { "print 1;", "print ;", "}", "{", "{ print ; }", "1 +", "var", "( { 1", "fun f( {",
      "\"", "\"ab", "\"a\"", "@" }

SyncSources == UNION {[1..n -> SyncPieces] : n \in 1..MaxDeclarations}

InitSync ==
    /\ NoRun
    /\ \E source \in SyncSources :
          /\ prog = source
          /\ scanner = Scanner_new(Text(source))
    /\ token = NoToken
    /\ parsed = [ok |-> TRUE, ast |-> << >>, errors |-> << >>]
    /\ merging = << >>
    /\ merged = Span(0, 0)
    /\ parser = NoParser
    /\ executable = Executable_new("")
    /\ status = "read"

SyncUnchanged ==
    UNCHANGED <<scanner, token, merging, merged, executable, functions, ip, base, stack,
                globals, closures,
                classes, instances, callstack, error, output, prog, runs>>

\* Parser::new(source): the first two tokens are scanned
NewParser ==
    /\ status = "read"
    /\ \E checked \in BOOLEAN : parser' = Parser_new(Text(prog), checked)
    /\ status' = "parsing"
    /\ UNCHANGED parsed
    /\ SyncUnchanged

\* the condition of the loop of parse_program
Declaring == status = "parsing" /\ parser.current.kind # "Eof"

\* what one turn of the loop of parse_program does with the Result of declaration()
Declared(declared) ==
    IF declared.ok
    THEN /\ parsed' = [parsed EXCEPT !.ast = Append(@, declared.node)]
         /\ parser' = declared.p
         /\ status' = "parsing"
    ELSE IF declared.panic
    THEN /\ parsed' = parsed
         /\ parser' = declared.p
         /\ status' = "panicked"
    ELSE /\ parsed' = [parsed EXCEPT !.errors = Append(@, declared.err)]
         /\ parser' = Parser_advance(declared.p).p
         /\ status' = "synchronizing"

\* one turn of the loop of parse_program: a declaration, or the error of one and
\* the first advance of synchronize
Declare ==
    /\ Declaring
    /\ Declared(Self("declaration", parser))
    /\ SyncUnchanged

\* where one turn of the loop of synchronize leaves the Parser
Synchronized(step) ==
    /\ parser' = step.p
    /\ status' = IF step.at = "done" THEN "parsing" ELSE "synchronizing"

\* the match of synchronize: `;` or Eof is passed, a brace is left, anything else
\* goes to the last arm
SynchronizeMatch ==
    /\ status = "synchronizing"
    /\ IF parser.current.kind \in {"Semicolon", "Eof", "LeftBrace", "RightBrace"}
       THEN Synchronized(synchronize_step(parser))
       ELSE parser' = parser /\ status' = "skipping"
    /\ UNCHANGED parsed
    /\ SyncUnchanged

\* the last arm of synchronize: self.advance(), and the loop goes on
SynchronizeSkip ==
    /\ status = "skipping"
    /\ Synchronized(synchronize_step(parser))
    /\ UNCHANGED parsed
    /\ SyncUnchanged

\* the loop of parse_program ends at Eof
ParseReturn ==
    /\ status = "parsing"
    /\ parser.current.kind = "Eof"
    /\ parsed' = parse_program(Source(parsed.ast, parsed.errors))
    /\ status' = IF parsed.errors = << >> THEN "parsed" ELSE "rejected"
    /\ UNCHANGED parser
    /\ SyncUnchanged

NextSync == NewParser \/ Declare \/ SynchronizeMatch \/ SynchronizeSkip \/ ParseReturn

\* parse_program has returned, or the process has panicked
ParseOver == status \in {"parsed", "rejected", "panicked"}

\* WF_vars(NextSync), its ENABLED <<NextSync>>_vars written as ~ParseOver: until
\* parse_program has returned one of the steps can be taken, each of them changes
\* status or parsed, and every step is one of them
SyncFair == []<>ParseOver \/ []<><<~ParseOver>>_vars

\* the steps of a parse are taken one after the other until it returns
SpecSync == InitSync /\ [][NextSync]_vars /\ WF_vars(ParseReturn) /\ SyncFair

Exhausted(p) ==
    /\ p.current.kind = "Eof" \/ p.next.kind = "Eof"
    /\ Scanner_next(p.scanner).token.kind = "Eof"

\* the parse returns once the tokens have reached Eof
C35_ReturnsAtEof ==
    (status \in {"parsing", "synchronizing", "skipping"} /\ Exhausted(parser))
        ~> ParseOver

\* the place of the program among ArityPrograms
ArityIndex == prog - Len(CorePrograms) - Len(ForPrograms) - Len(UpvaluePrograms) - Len(JumpPrograms)

IsArity == ArityIndex \in 1..Len(ArityPrograms)

\* C36: a closure invoked with fewer arguments than it has parameters runs
\* without an error, its leading parameters bound in order to the arguments
\* supplied: the program prints them and ends well
C36_FewerArgumentsRun ==
    IsArity
    => /\ status \notin {"error", "failed", "panicked"}
       /\ Len(output) <= Len(ArityOutputs[ArityIndex])
       /\ output = SubSeq(ArityOutputs[ArityIndex], 1, Len(output))
       /\ status = "ok" => output = ArityOutputs[ArityIndex]

\* the programs whose function reads no parameter beyond the arguments supplied
\* run to the end
C36_UnreadParametersRun ==
    (IsArity /\ ArityIndex # 3)
    => /\ status \notin {"error", "failed", "panicked"}
       /\ Len(output) <= Len(ArityOutputs[ArityIndex])
       /\ output = SubSeq(ArityOutputs[ArityIndex], 1, Len(output))
       /\ status = "ok" => output = ArityOutputs[ArityIndex]

\* the test function_recursive has run to its end
C36_Witness == IsArity /\ ArityIndex = 1 /\ status = "ok" /\ output = <<"2", "1", "0">>

(***************************************************************************)
(* executable.rs: the Executable and the methods that build it.  code is   *)
(* a Vec<u8>, spans a Vec<Span>, constants a Vec<Value>.  A u8 is          *)
(* 0 .. u8_max_value and a u16 is two of them; indices count from 0.       *)
(* status is "built" after a method has returned and "panicked" after an   *)
(* index out of bounds.                                                    *)
(***************************************************************************)
\* u8::max_value(), scaled down
u8_max_value == 1

\* u16::max_value(): two bytes
u16_max_value == (u8_max_value + 1) * (u8_max_value + 1) - 1

\* `as u8`, `as u16`: the low bits
as_u8(n) == n % (u8_max_value + 1)

as_u16(n) == n % (u16_max_value + 1)

\* value >> 8
high_byte(value) == value \div (u8_max_value + 1)

\* the opcodes of the byte code that the methods are given here
OpCodes == <<"Constant", "Return">>

\* OpCode into u8, as push_opcode and push_constant_inst convert the opcode they
\* are given: the place of the opcode in the enum
into(op) == IndexOf(OpCodes, op) - 1

\* Executable::push_u16 with one span for the two bytes
push_u16_OneSpan(e, value, span) ==
    [e EXCEPT !.code = @ \o <<high_byte(value), as_u8(value)>>, !.spans = Append(@, span)]

\* Executable::push_u8
push_u8(e, value, span) == [e EXCEPT !.code = Append(@, value), !.spans = Append(@, span)]

\* Executable::push_u16
push_u16(e, value, span) ==
    [e EXCEPT !.code = @ \o <<high_byte(value), as_u8(value)>>, !.spans = @ \o <<span, span>>]

\* Executable::replace_u8: [e, panic]
replace_u8(e, index, value) ==
    IF index >= Len(e.code) THEN [e |-> e, panic |-> TRUE]
    ELSE [e |-> [e EXCEPT !.code[index + 1] = value], panic |-> FALSE]

\* Executable::replace_u16: the high byte is written before the low one is indexed
replace_u16(e, index, value) ==
    IF index >= Len(e.code) THEN [e |-> e, panic |-> TRUE]
    ELSE IF index + 1 >= Len(e.code)
    THEN [e |-> [e EXCEPT !.code[index + 1] = high_byte(value)], panic |-> TRUE]
    ELSE [e |-> [e EXCEPT !.code[index + 1] = high_byte(value), !.code[index + 2] = as_u8(value)],
          panic |-> FALSE]

\* Executable::push_constant_inst: [e, index], the index `as u16`
push_constant_inst(e, op, value, span) ==
    LET pushed == [e EXCEPT !.constants = Append(@, value)]
        index == Len(pushed.constants) - 1
    IN  [e |-> IF index <= u8_max_value
               THEN push_u8(push_u8(pushed, into(op), span), as_u8(index), span)
               ELSE IF index <= u16_max_value
               THEN push_u16(push_u8(pushed, into(op), span), as_u16(index), span)
               ELSE pushed,
         index |-> as_u16(index)]

\* most bytes pushed by push_opcode, push_u8 and push_u16 together
MaxPushed == 2

\* most constants of an Executable
MaxConstants == u16_max_value + 2

\* the bytes that n calls of push_constant_inst have pushed
RECURSIVE ConstantBytes(_)
ConstantBytes(n) ==
    IF n = 0 THEN 0
    ELSE ConstantBytes(n - 1)
         + (IF n - 1 <= u8_max_value THEN 2 ELSE IF n - 1 <= u16_max_value THEN 3 ELSE 0)

Pushed(e) == Len(e.code) - ConstantBytes(Len(e.constants))

SomeExecSpans == {Span(0, 1), Span(2, 5)}

InitExec ==
    /\ NoRun
    /\ Unread
    /\ prog = 0
    /\ status = "built"

ExecUnchanged == UNCHANGED <<scanner, token, parsed, merging, merged, parser, backend>>

PushOpcode ==
    /\ status = "built"
    /\ Pushed(executable) + 1 <= MaxPushed
    /\ \E code \in {"Constant"}, span \in SomeExecSpans :
          executable' = push_opcode(executable, into(code), span)
    /\ UNCHANGED status
    /\ ExecUnchanged

PushU8 ==
    /\ status = "built"
    /\ Pushed(executable) + 1 <= MaxPushed
    /\ \E value \in {0}, span \in {Span(2, 5)} :
          executable' = push_u8(executable, value, span)
    /\ UNCHANGED status
    /\ ExecUnchanged

PushU16 ==
    /\ status = "built"
    /\ Pushed(executable) + 2 <= MaxPushed
    /\ \E value \in {u8_max_value + 1}, span \in {Span(2, 5)} :
          executable' = push_u16(executable, value, span)
    /\ UNCHANGED status
    /\ ExecUnchanged

\* the indices tried by the replacements: the first two bytes, and one past the
\* end
ReplaceIndices == {0, 1, Len(executable.code)}

Replaced(outcome) ==
    /\ executable' = outcome.e
    /\ status' = IF outcome.panic THEN "panicked" ELSE "built"

ReplaceU8 ==
    /\ status = "built"
    /\ \E index \in ReplaceIndices : Replaced(replace_u8(executable, index, u8_max_value))
    /\ ExecUnchanged

ReplaceU16 ==
    /\ status = "built"
    /\ \E index \in ReplaceIndices : Replaced(replace_u16(executable, index, u16_max_value))
    /\ ExecUnchanged

PushConstantInst ==
    /\ status = "built"
    /\ Len(executable.constants) < MaxConstants
    /\ \E op \in {"Constant"}, span \in {Span(0, 1)} :
          executable' = push_constant_inst(executable, op, ValueNil, span).e
    /\ UNCHANGED status
    /\ ExecUnchanged

NextExec == PushOpcode \/ PushU8 \/ PushU16 \/ ReplaceU8 \/ ReplaceU16 \/ PushConstantInst

SpecExec == InitExec /\ [][NextExec]_vars

\* C37: the spans of an Executable are parallel to its code: after any sequence
\* of push_opcode, push_u8, push_u16, push_constant_inst, replace_u8 and
\* replace_u16 there are as many spans as bytes of code
C37_SpansParallelToCode == Len(executable.spans) = Len(executable.code)

\* the three branches of push_constant_inst have been taken, bytes have been
\* pushed by the other methods, and replacements have written the first two bytes
C37_Witness ==
    /\ status = "built"
    /\ Len(executable.constants) > u16_max_value + 1
    /\ Pushed(executable) = MaxPushed
    /\ executable.code[1] = u8_max_value /\ executable.code[2] = u8_max_value
    /\ Len(executable.spans) = Len(executable.code)

\* a step of the code of a called closure, method or initializer
CalleeStep ==
    /\ status = "running" /\ status' = "running"
    /\ Len(callstack) > 1
    /\ callstack'[Len(callstack)].closure = callstack[Len(callstack)].closure
    /\ Len(callstack') = Len(callstack)

\* VM::call returns Ok to the interpret that made the call
ReturnStep ==
    /\ status = "returned" /\ status' = "running"
    /\ Len(callstack) > 1
    /\ Len(callstack') = Len(callstack) - 1

\* C38: when a call returns, ip and base are those of the caller at the Invoke
\* (ip past the Invoke), and no step of the callee has changed a stack slot below
\* the base of the callee (VM::instantiate puts the instance there once the
\* initializer has returned)
C38_CallPreservesCaller ==
    [][/\ CalleeStep => /\ Len(stack') >= base
                        /\ SubSeq(stack', 1, base) = SubSeq(stack, 1, base)
                        /\ callstack'[Len(callstack)].ip_backup = Activation.ip_backup
                        /\ callstack'[Len(callstack)].base_backup = Activation.base_backup
       /\ ReturnStep => /\ ip' = Activation.ip_backup
                        /\ base' = Activation.base_backup
                        /\ Activation.kind # "init"
                           => SubSeq(stack', 1, base) = SubSeq(stack, 1, base)]_vars

\* the ReadField arm is about to borrow() the method table of a class that a
\* running VM::instantiate holds by borrow_mut()
ReadsLocked ==
    /\ Fetch("ReadField")
    /\ Instruction.a < Len(Bin.constants)
    /\ is_string(get_constant(Bin, Instruction.a))
    /\ stack # << >>
    /\ peek(0).t = "Instance"
    /\ instances[peek(0).n].class \in Locked

\* the Invoke arm is about to instantiate such a class: VM::instantiate borrows
\* its method table first
InstantiatesLocked ==
    /\ Fetch("Invoke")
    /\ Len(stack) > Instruction.a + 1
    /\ peek(Instruction.a + 1).t = "Class"
    /\ peek(Instruction.a + 1).n \in Locked

\* C39: no execution makes conflicting borrows of the method table of a class:
\* while the initializer of a class runs, no field or method of an instance of
\* the class is read, and no instance of it made, with the table still borrowed
C39_NoBorrowConflict == ~ReadsLocked /\ ~InstantiatesLocked

\* the classes that have an instance
Instantiated == {instances[i].class : i \in 1..Len(instances)}

\* C40: the classes yielded by the executions of one class declaration have
\* method tables of their own: a method attached later is not seen through a
\* class of an earlier execution, so no method of a class that already has an
\* instance is replaced
C40_ExecutionsIndependent ==
    [][\A c \in Instantiated :
          \A name \in DOMAIN classes[c].methods :
              classes'[c].methods[name] = classes[c].methods[name]]_vars

\* ClassTwiceProgram prints the n of the first call of make
C40_FirstInstanceKeepsMethod ==
    prog = Len(Programs) - Len(ShortCircuitPrograms)
    => /\ status \notin {"failed", "panicked"}
       /\ output \in {<< >>, <<"1">>}
       /\ status = "ok" => output = <<"1">>

=============================================================================
